---- MODULE Spec2Model ----
(***************************************************************************)
(* A model of leafwing_input_playback: the timestamped event log           *)
(* (src/src/timestamped_input.rs), the capture system                      *)
(* (src/src/input_capture.rs) and the playback strategy engine             *)
(* (src/src/input_playback.rs).                                            *)
(*                                                                         *)
(* Conventions.  `cursor` is the 0-based index of the code; the event the  *)
(* code calls events[cursor] is events[cursor + 1] here.  A FrameCount is  *)
(* an unsigned integer of fixed width; the width is scaled down to         *)
(* FrameModulus values so that the wrapping additions of the code can be   *)
(* exercised.  A Duration is a natural number of time units.               *)
(***************************************************************************)
EXTENDS Integers, Sequences, FiniteSets, TLC

VARIABLES
    events,       \* TimestampedInputs.events
    cursor,       \* TimestampedInputs.cursor
    strategy,     \* the PlaybackStrategy resource
    progress,     \* the PlaybackProgress resource
    frame_count,  \* the host's FrameCount resource
    elapsed,      \* the host's Time::elapsed()
    emitted,      \* the events handed to send_playback_events by the last step
    emittedIdx,   \* history: the log indices (0-based) of `emitted`
    last,         \* history: the last operation and the state it started from
    batches,      \* history: delta and emittedIdx of every playback tick since the strategy was installed
    firstRun,     \* history: `batches` of the run before the strategy was installed again
    delivered,    \* history: the indices emitted since the last cursor reset
    epochClosed,  \* history: a cursor reset has happened since `delivered` last grew
    strategy0,    \* history: the strategy as installed
    playback_window, \* the PlaybackWindow resource ("None" when absent)
    modes,        \* the InputModesCaptured resource
    window_to_capture, \* the InputCaptureWindow resource ("None" when absent)
    playback_file, \* the PlaybackFilePath of the capture ("None" for a path of None)
    file,         \* the content of the file at that path (<<>> while there is none)
    windows,      \* the Window entities that exist, each with its cursor position or "None"
    final_capture_frame, \* FinalCaptureFrame: <<f>>, the frame on which the capture ends, or <<>>
    resources,    \* the names of the resources of this crate present in the World
    unread,       \* what the EventReaders of capture_input have yet to read, by class
    captured,     \* history: the host's input and the entries logged on each capture tick
    phase         \* "capture", "ended" (capture resources removed) or "playback"

logVars  == <<events, cursor>>
playVars == <<strategy, progress, playback_window>>
capVars  == <<modes, window_to_capture, final_capture_frame, playback_file, file, resources,
              unread, captured, phase>>
hostVars == <<frame_count, elapsed, windows>>
histVars == <<emitted, emittedIdx, last, batches, firstRun, delivered, epochClosed, strategy0>>
vars     == <<logVars, playVars, capVars, hostVars, histVars>>

----------------------------------------------------------------------------
(* Bounds of the model *)

MaxLen == 3        \* longest log drawn by Init
MaxBound == 3      \* largest ordinary start/end bound and event key
MaxTicks == 8      \* playback ticks explored in a session paced by frames
MaxTimeTicks == 3  \* playback ticks explored in a session paced by time
MaxOps == 3        \* operations explored in a session of mixed use
MaxBusyTicks == 2  \* capture ticks on which the host delivers any input
MaxCaptureOps == 4 \* capture ticks and changes of the mask explored in a capture

(* FrameCount arithmetic of the code is wrapping_add on an unsigned integer; *)
(* the width is scaled down to 3 bits.                                       *)
FrameModulus == 8
FrameMax == FrameModulus - 1

----------------------------------------------------------------------------
(* Values *)

\* KeyboardInput { state, window: Entity::PLACEHOLDER } as the tests build it
TEST_PRESS   == [kind |-> "Keyboard", window |-> "PLACEHOLDER", data |-> "Pressed"]
TEST_RELEASE == [kind |-> "Keyboard", window |-> "PLACEHOLDER", data |-> "Released"]

\* native events of the other classes, on the windows w1 and w2
MouseButtonInput(window, data) == [kind |-> "MouseButton", window |-> window, data |-> data]
MouseWheel(window, data)  == [kind |-> "MouseWheel", window |-> window, data |-> data]
CursorMoved(window, data) == [kind |-> "CursorMoved", window |-> window, data |-> data]
GamepadEvent(data)        == [kind |-> "Gamepad", window |-> "None", data |-> data]
AppExit(data)             == [kind |-> "AppExit", window |-> "None", data |-> data]

\* the From impls of InputEvent: each native event is wrapped in the variant
\* of its class (the `kind` here); InputEvent::AppExit carries no payload
into_input_event(e) ==
    IF e.kind = "AppExit"
    THEN [kind |-> "AppExit", window |-> "None", data |-> "unit"]
    ELSE e

\* TimestampedInputEvent
TimestampedInputEvent(frame, time, input_event) ==
    [frame |-> frame, time_since_startup |-> time, input_event |-> input_event]

\* PlaybackStrategy variants; start/end are 0 for the variants without bounds
Strat(kind, start, end) == [kind |-> kind, start |-> start, end |-> end]
StratTime       == Strat("Time", 0, 0)
StratFrameCount == Strat("FrameCount", 0, 0)
StratPaused     == Strat("Paused", 0, 0)

\* PlaybackProgress::default()
ProgressDefault == [elapsed_time |-> 0, elapsed_frames |-> 0]

----------------------------------------------------------------------------
(* TimestampedInputs: the log operations (src/src/timestamped_input.rs).    *)
(* Each query returns the new cursor and the 0-based indices it yields.     *)

Range(s) == {s[i] : i \in 1..Len(s)}

\* the indices lo..hi-1 in increasing order
Indices(lo, hi) == [i \in 1..(hi - lo) |-> lo + i - 1]

\* the events of a log at a sequence of 0-based indices
EventsAt(evs, idx) == [i \in 1..Len(idx) |-> evs[idx[i] + 1]]
InputsAt(evs, idx) == [i \in 1..Len(idx) |-> evs[idx[i] + 1].input_event]

\* a plausible slip: the event is stamped with the frame after the current one
send_stamped_late(evs, frame, time, input_event) ==
    Append(evs, TimestampedInputEvent(frame + 1, time, input_event))

\* a plausible slip: the event is pushed to the front of the list
send_to_front(evs, frame, time, input_event) ==
    <<TimestampedInputEvent(frame, time, input_event)>> \o evs

\* a plausible slip: the newest record is overwritten instead of pushed after
send_overwriting(evs, frame, time, input_event) ==
    IF evs = <<>> THEN <<TimestampedInputEvent(frame, time, input_event)>>
    ELSE [evs EXCEPT ![Len(evs)] = TimestampedInputEvent(frame, time, input_event)]

\* TimestampedInputs::send
send(evs, frame, time, input_event) ==
    Append(evs, TimestampedInputEvent(frame, time, input_event))

\* TimestampedInputs::send_multiple
RECURSIVE send_multiple(_, _, _, _)
send_multiple(evs, frame, time, event_stream) ==
    IF event_stream = <<>> THEN evs
    ELSE send_multiple(send(evs, frame, time, Head(event_stream)),
                       frame, time, Tail(event_stream))

\* TimestampedInputs::reset_cursor
\* a reset that leaves the log drained
reset_cursor_to_end == Len(events)

reset_cursor == 0

\* TimestampedInputs::is_sorted(SortingStrategy::FrameCount)
is_sorted_frame(evs) ==
    \A i \in 1..Len(evs) :
        /\ evs[i].frame >= 0
        /\ i > 1 => evs[i].frame >= evs[i-1].frame

\* TimestampedInputs::is_sorted(SortingStrategy::TimeSinceStartup)
is_sorted_time(evs) ==
    \A i \in 1..Len(evs) :
        /\ evs[i].time_since_startup >= 0
        /\ i > 1 => evs[i].time_since_startup >= evs[i-1].time_since_startup

\* the loop condition of iter_until_time
until_time_cond(ev, time_since_startup) ==
    ev.time_since_startup <= time_since_startup

\* a plausible slip: `<` for `<=` in the loop of iter_until_frame
until_frame_cond_strict(ev, frame) ==
    ev.frame < frame

\* the loop condition of iter_until_frame
until_frame_cond(ev, frame) ==
    ev.frame <= frame

\* a plausible slip: a range closed at its end
between_cond_closed(key, start, end) ==
    key >= start /\ key <= end

\* the branch of iter_between_times / iter_between_frames that yields the event
between_cond(key, start, end) ==
    key >= start /\ key < end

\* the branch of iter_between_times / iter_between_frames that stops the scan
between_break(key, end) ==
    key >= end

\* TimestampedInputs::iter_until_time
RECURSIVE iter_until_time_loop(_, _, _, _)
iter_until_time_loop(evs, cur, time_since_startup, result) ==
    IF cur < Len(evs) /\ until_time_cond(evs[cur + 1], time_since_startup)
    THEN iter_until_time_loop(evs, cur + 1, time_since_startup, Append(result, cur))
    ELSE [cursor |-> cur, result |-> result]

iter_until_time(evs, cur, time_since_startup) ==
    iter_until_time_loop(evs, cur, time_since_startup, <<>>)

\* TimestampedInputs::iter_until_frame
RECURSIVE iter_until_frame_loop(_, _, _, _)
iter_until_frame_loop(evs, cur, frame, result) ==
    IF cur < Len(evs) /\ until_frame_cond(evs[cur + 1], frame)
    THEN iter_until_frame_loop(evs, cur + 1, frame, Append(result, cur))
    ELSE [cursor |-> cur, result |-> result]

\* a plausible slip: a bounds check that is off by one, so that the last
\* event of the log is never reached
iter_until_frame_short(evs, cur, frame) ==
    iter_until_frame_loop(SubSeq(evs, 1, Len(evs) - 1), cur, frame, <<>>)

iter_until_frame(evs, cur, frame) ==
    iter_until_frame_loop(evs, cur, frame, <<>>)

\* TimestampedInputs::iter_between_times
RECURSIVE iter_between_times_loop(_, _, _, _, _)
iter_between_times_loop(evs, cur, start_time, end_time, result) ==
    IF cur < Len(evs)
    THEN LET cursor_time == evs[cur + 1].time_since_startup IN
         IF between_cond(cursor_time, start_time, end_time)
         THEN iter_between_times_loop(evs, cur + 1, start_time, end_time,
                                      Append(result, cur))
         ELSE IF between_break(cursor_time, end_time)
         THEN [cursor |-> cur, result |-> result]
         ELSE iter_between_times_loop(evs, cur + 1, start_time, end_time, result)
    ELSE [cursor |-> cur, result |-> result]

iter_between_times(evs, cur, start_time, end_time) ==
    iter_between_times_loop(evs, cur, start_time, end_time, <<>>)

\* TimestampedInputs::iter_between_frames
RECURSIVE iter_between_frames_loop(_, _, _, _, _)
iter_between_frames_loop(evs, cur, start_frame, end_frame, result) ==
    IF cur < Len(evs)
    THEN LET cursor_frame == evs[cur + 1].frame IN
         IF between_cond(cursor_frame, start_frame, end_frame)
         THEN iter_between_frames_loop(evs, cur + 1, start_frame, end_frame,
                                       Append(result, cur))
         ELSE IF between_break(cursor_frame, end_frame)
         THEN [cursor |-> cur, result |-> result]
         ELSE iter_between_frames_loop(evs, cur + 1, start_frame, end_frame, result)
    ELSE [cursor |-> cur, result |-> result]

iter_between_frames(evs, cur, start_frame, end_frame) ==
    iter_between_frames_loop(evs, cur, start_frame, end_frame, <<>>)

\* TimestampedInputs::frame_range: None for an empty log, otherwise the
\* frames of the first and of the last event
frame_range(evs) ==
    IF Len(evs) > 0 THEN <<evs[1].frame, evs[Len(evs)].frame>> ELSE <<>>

\* a plausible slip: iter_all that starts at the cursor
iter_all_from_cursor(evs, cur) ==
    [cursor |-> Len(evs), result |-> Indices(cur, Len(evs))]

\* TimestampedInputs::iter_all
iter_all(evs, cur) == [cursor |-> Len(evs), result |-> Indices(0, Len(evs))]

\* TimestampedInputs::iter_rest (Vec::split_off panics when cursor > len)
iter_rest(evs, cur) == [cursor |-> Len(evs), result |-> Indices(cur, Len(evs))]

\* the key compared by the closure of a SortingStrategy
sort_key(ev, sorting_strategy) ==
    IF sorting_strategy = "FrameCount" THEN ev.frame ELSE ev.time_since_startup

\* TimestampedInputs::sort: slice::sort_by is stable
RECURSIVE sort(_, _)
sort(evs, sorting_strategy) ==
    IF evs = <<>> THEN <<>>
    ELSE LET front == sort(SubSeq(evs, 1, Len(evs) - 1), sorting_strategy)
             ev == evs[Len(evs)]
             k == Cardinality({i \in 1..Len(front) :
                                 sort_key(front[i], sorting_strategy) <= sort_key(ev, sorting_strategy)})
         IN  SubSeq(front, 1, k) \o <<ev>> \o SubSeq(front, k + 1, Len(front))

\* a plausible slip: next without the test of the cursor against the length
iter_next_unguarded(evs, cur) ==
    [cursor |-> cur + 1, result |-> IF cur < Len(evs) THEN <<cur>> ELSE <<>>]

\* a plausible slip: next yields the event without advancing the cursor
iter_next_stuck(evs, cur) ==
    IF cur >= Len(evs)
    THEN [cursor |-> cur, result |-> <<>>]
    ELSE [cursor |-> cur, result |-> <<cur>>]

\* Iterator::next for TimestampedInputs
iter_next(evs, cur) ==
    IF cur >= Len(evs)
    THEN [cursor |-> cur, result |-> <<>>]
    ELSE [cursor |-> cur + 1, result |-> <<cur>>]

----------------------------------------------------------------------------
(* Capture (src/src/input_capture.rs) *)

\* the resources removed when a capture ends
CaptureResources ==
    {"PlaybackFilePath", "TimestampedInputs", "InputModesCaptured",
     "FinalCaptureFrame", "InputCaptureWindow"}

\* the resources removed by EndInputPlayback::observer
PlaybackResources ==
    {"PlaybackFilePath", "TimestampedInputs", "PlaybackProgress",
     "PlaybackStrategy", "PlaybackWindow"}

\* a resource that is inserted only when the option is given
Optional(name, option) == IF option = "None" THEN {} ELSE {name}

ENABLE_ALL  == [mouse_buttons |-> TRUE, mouse_motion |-> TRUE,
                keyboard |-> TRUE, gamepad |-> TRUE]
DISABLE_ALL == [mouse_buttons |-> FALSE, mouse_motion |-> FALSE,
                keyboard |-> FALSE, gamepad |-> FALSE]

\* a plausible slip: the capture window is ignored
on_any_window(q, window) == q

\* the filter of capture_input on the window of an event
on_captured_window(q, window) ==
    SelectSeq(q, LAMBDA e : window = "None" \/ window = e.window)

\* `.cloned()` handed to send_multiple, which calls `event.into()` on each
into_all(q) == [i \in 1..Len(q) |-> into_input_event(q[i])]

\* capture_input: `host` holds what each EventReader of the system reads on
\* this tick; the classes are appended in the order of the code
capture_input(evs, input_modes_captured, window, frame, time, host) ==
    LET own(q) == into_all(on_captured_window(q, window))
        e1 == IF input_modes_captured.mouse_buttons
              THEN send_multiple(send_multiple(evs, frame, time, own(host.mouse_button)),
                                 frame, time, own(host.mouse_wheel))
              ELSE evs
        e2 == IF input_modes_captured.mouse_motion
              THEN send_multiple(e1, frame, time, own(host.cursor_moved))
              ELSE e1
        e3 == IF input_modes_captured.keyboard
              THEN send_multiple(e2, frame, time, own(host.keyboard))
              ELSE e2
        e4 == IF input_modes_captured.gamepad
              THEN send_multiple(e3, frame, time, into_all(host.gamepad))
              ELSE e3
    IN  send_multiple(e4, frame, time, into_all(host.app_exit))

\* a plausible slip: the readers of a disabled class are left as they are
clear_reader_keeps(q) == q

\* EventReader::clear: every event is marked as read
clear_reader(q) == <<>>

\* EventReader::read exhausted by send_multiple: nothing is left unread
read_reader(q) == <<>>

\* what the readers of capture_input hold unread after it ran on `host`
readers_after(input_modes_captured, host) ==
    [mouse_button |-> IF input_modes_captured.mouse_buttons
                      THEN read_reader(host.mouse_button)
                      ELSE clear_reader(host.mouse_button),
     mouse_wheel  |-> IF input_modes_captured.mouse_buttons
                      THEN read_reader(host.mouse_wheel)
                      ELSE clear_reader(host.mouse_wheel),
     cursor_moved |-> IF input_modes_captured.mouse_motion
                      THEN read_reader(host.cursor_moved)
                      ELSE clear_reader(host.cursor_moved),
     keyboard     |-> IF input_modes_captured.keyboard
                      THEN read_reader(host.keyboard)
                      ELSE clear_reader(host.keyboard),
     gamepad      |-> IF input_modes_captured.gamepad
                      THEN read_reader(host.gamepad)
                      ELSE clear_reader(host.gamepad),
     app_exit     |-> read_reader(host.app_exit)]

\* the events a reader sees: those it left unread, then the newly sent ones
sent_to(readers, host) ==
    [mouse_button |-> readers.mouse_button \o host.mouse_button,
     mouse_wheel  |-> readers.mouse_wheel \o host.mouse_wheel,
     cursor_moved |-> readers.cursor_moved \o host.cursor_moved,
     keyboard     |-> readers.keyboard \o host.keyboard,
     gamepad      |-> readers.gamepad \o host.gamepad,
     app_exit     |-> readers.app_exit \o host.app_exit]

\* a plausible slip: the cursor field skipped by the serializer and
\* defaulted by the deserializer
to_ron_skipping_cursor(evs, cur) ==
    <<[i \in 1..Len(evs) |->
         <<evs[i].frame, evs[i].time_since_startup,
           <<evs[i].input_event.kind, evs[i].input_event.window,
             evs[i].input_event.data>>>>],
      0>>

\* the text written by ron::ser::to_string_pretty for a TimestampedInputs:
\* the list of events, each a tuple of its fields, and the cursor
to_ron(evs, cur) ==
    <<[i \in 1..Len(evs) |->
         <<evs[i].frame, evs[i].time_since_startup,
           <<evs[i].input_event.kind, evs[i].input_event.window,
             evs[i].input_event.data>>>>],
      cur>>

\* serialize_timestamped_inputs: the content of the file afterwards
serialize_timestamped_inputs(evs, cur, path, content) ==
    IF path # "None" THEN to_ron(evs, cur) ELSE content

\* the text is the RON of a TimestampedInputs: it has both fields
well_formed(content) == Len(content) = 2

\* ron::de::from_reader of a well-formed file's content
from_reader(content) ==
    [events |-> [i \in 1..Len(content[1]) |->
                   TimestampedInputEvent(content[1][i][1], content[1][i][2],
                       [kind |-> content[1][i][3][1], window |-> content[1][i][3][2],
                        data |-> content[1][i][3][3]])],
     cursor |-> content[2]]

\* the outcomes of deserialize_timestamped_inputs
LoadNone == [kind |-> "None", events |-> <<>>, cursor |-> 0]
LoadErr(error) == [kind |-> error, events |-> <<>>, cursor |-> 0]
LoadOk(inputs) == [kind |-> "Ok", events |-> inputs.events, cursor |-> inputs.cursor]

\* a loader that reads a file it cannot open or parse as an empty log
deserialize_as_no_data(path, content) ==
    IF path = "None" THEN LoadNone
    ELSE IF content = <<>> \/ ~well_formed(content)
    THEN LoadOk([events |-> <<>>, cursor |-> 0])
    ELSE LoadOk(from_reader(content))

\* deserialize_timestamped_inputs: None without a path, Err(Fs) when the file
\* cannot be opened (an absent file is <<>>), Err(Ron) when its content is
\* not the RON of a TimestampedInputs
deserialize_timestamped_inputs(path, content) ==
    IF path = "None" THEN LoadNone
    ELSE IF content = <<>> THEN LoadErr("Fs")
    ELSE IF ~well_formed(content) THEN LoadErr("Ron")
    ELSE LoadOk(from_reader(content))

----------------------------------------------------------------------------
(* PlaybackProgress (src/src/input_playback.rs) *)

\* u32::wrapping_add at the model's width
wrapping_add(a, b) == (a + b) % FrameModulus

\* Add and Sub of frame_counting::FrameCount: saturating_add, saturating_sub
saturating_add(a, b) == IF a + b <= FrameMax THEN a + b ELSE FrameMax
saturating_sub(a, b) == IF a >= b THEN a - b ELSE 0

\* PlaybackProgress::current_frame
current_frame(prog, start) == wrapping_add(start, prog.elapsed_frames)

\* PlaybackProgress::current_time
current_time(prog, start) == start + prog.elapsed_time

\* a plausible slip: the frame counter advanced by two
next_frame_by_two(prog) ==
    [prog EXCEPT !.elapsed_frames = wrapping_add(prog.elapsed_frames, 2)]

\* PlaybackProgress::next_frame: the progress after the call (it returns
\* current_frame of that progress)
next_frame(prog) ==
    [prog EXCEPT !.elapsed_frames = wrapping_add(prog.elapsed_frames, 1)]

\* a plausible slip: next_time that also counts a frame
next_time_counts_frame(prog, delta) ==
    [elapsed_time |-> prog.elapsed_time + delta,
     elapsed_frames |-> wrapping_add(prog.elapsed_frames, 1)]

\* PlaybackProgress::next_time: the progress after the call (it returns
\* current_time of that progress)
next_time(prog, delta) ==
    [prog EXCEPT !.elapsed_time = prog.elapsed_time + delta]

\* a plausible slip: reset() that forgets to rewind the log
progress_reset_keeps_cursor(cur, prog) ==
    [cursor |-> cur, progress |-> ProgressDefault]

\* PlaybackProgress::reset: timestamped_input.reset_cursor(); *self = default()
progress_reset(cur, prog) ==
    [cursor |-> reset_cursor, progress |-> ProgressDefault]

\* a plausible slip: `>=` for `>` in the completion test
frame_range_covered_ge(prog, start, end) == current_frame(prog, start) >= end

\* the completion test of the range strategies:
\* `playback_progress.current_frame(start) > end`
frame_range_covered(prog, start, end) == current_frame(prog, start) > end

\* `playback_progress.current_time(start) > end`
time_range_covered(prog, start, end) == current_time(prog, start) > end

----------------------------------------------------------------------------
(* The playback system (src/src/input_playback.rs) *)

\* `window_override` of playback_timestamped_input.  PlaybackWindow::PrimaryWindow
\* resolves to the primary window entity.
PrimaryWindowEntity == "primary"
window_override(pw) ==
    IF pw = "None" THEN "None"
    ELSE IF pw = "PrimaryWindow" THEN PrimaryWindowEntity
    ELSE pw

\* one arm of the match in send_playback_events: the event as it is sent
playback_event(input_event, override) ==
    IF input_event.kind \in {"Keyboard", "MouseButton", "MouseWheel"} /\ override # "None"
    THEN [input_event EXCEPT !.window = override]
    ELSE IF input_event.kind = "AppExit"
    THEN [kind |-> "AppExit", window |-> "None", data |-> "Success"]  \* send_default
    ELSE input_event

\* send_playback_events: the events written to the host, in order
send_playback_events(evs, idx, override) ==
    [i \in 1..Len(idx) |-> playback_event(evs[idx[i] + 1].input_event, override)]

\* a plausible slip: the CursorMoved arm sets the position without looking
\* the window up, which creates an entry for a window that does not exist
set_cursor_position_unchecked(wins, e) ==
    [w \in DOMAIN wins \cup {e.window} |-> IF w = e.window THEN e.data ELSE wins[w]]

\* the CursorMoved arm of send_playback_events: Window::set_cursor_position
\* on the window of the event when the query finds it, a warning otherwise
set_cursor_position(wins, e) ==
    IF e.window \in DOMAIN wins
    THEN [wins EXCEPT ![e.window] = e.data]
    ELSE wins

\* send_playback_events: the windows after the events were sent
RECURSIVE windows_after(_, _, _)
windows_after(evs, idx, wins) ==
    IF idx = <<>> THEN wins
    ELSE LET e == evs[Head(idx) + 1].input_event
         IN  windows_after(evs, Tail(idx),
                           IF e.kind = "CursorMoved" THEN set_cursor_position(wins, e)
                           ELSE wins)

\* Query::single of the primary window panics unless there is exactly one
single_panics(pw, wins) == pw = "PrimaryWindow" /\ PrimaryWindowEntity \notin DOMAIN wins

\* the windows of an application: none, the primary one, the primary and w1
NoWindows == [w \in {} |-> "None"]
PrimaryOnly == [w \in {PrimaryWindowEntity} |-> "None"]
PrimaryAndW1 == [w \in {PrimaryWindowEntity, "w1"} |-> "None"]

\* a plausible slip: the Paused arm still advancing the progress
paused_arm_advances(evs, cur, strat, prog) ==
    [cursor |-> cur, result |-> <<>>, strategy |-> strat,
     progress |-> next_frame(prog), reset |-> FALSE]

\* the arm `PlaybackStrategy::Paused => { /* Do nothing */ }`
paused_arm(evs, cur, strat, prog) ==
    [cursor |-> cur, result |-> <<>>, strategy |-> strat, progress |-> prog,
     reset |-> FALSE]

\* playback_timestamped_input: the whole system, as a function of the resources
\* it reads.  Returns the resources it writes and the indices it plays back.
playback_timestamped_input(evs, cur, strat, prog, time_elapsed, time_delta, frame) ==
    CASE strat.kind = "Time" ->
            LET r == iter_until_time(evs, cur, time_elapsed) IN
            [cursor |-> r.cursor, result |-> r.result, strategy |-> strat, progress |-> prog,
             reset |-> FALSE]
      [] strat.kind = "FrameCount" ->
            LET r == iter_until_frame(evs, cur, frame) IN
            [cursor |-> r.cursor, result |-> r.result, strategy |-> strat, progress |-> prog,
             reset |-> FALSE]
      [] strat.kind = "TimeRangeOnce" ->
            LET p1 == next_time(prog, time_delta)
                r  == iter_between_times(evs, cur, current_time(prog, strat.start),
                                         current_time(p1, strat.start))
            IN  IF time_range_covered(p1, strat.start, strat.end)
                THEN [cursor |-> progress_reset(r.cursor, p1).cursor,
                      result |-> r.result, strategy |-> StratPaused,
                      progress |-> progress_reset(r.cursor, p1).progress,
                      reset |-> TRUE]
                ELSE [cursor |-> r.cursor, result |-> r.result,
                      strategy |-> strat, progress |-> p1, reset |-> FALSE]
      [] strat.kind = "FrameRangeOnce" ->
            LET p1 == next_frame(prog)
                r  == iter_between_frames(evs, cur, current_frame(prog, strat.start),
                                          current_frame(p1, strat.start))
            IN  IF frame_range_covered(p1, strat.start, strat.end)
                THEN [cursor |-> progress_reset(r.cursor, p1).cursor,
                      result |-> r.result, strategy |-> StratPaused,
                      progress |-> progress_reset(r.cursor, p1).progress,
                      reset |-> TRUE]
                ELSE [cursor |-> r.cursor, result |-> r.result,
                      strategy |-> strat, progress |-> p1, reset |-> FALSE]
      [] strat.kind = "TimeRangeLoop" ->
            LET p1 == next_time(prog, time_delta)
                r  == iter_between_times(evs, cur, current_time(prog, strat.start),
                                         current_time(p1, strat.start))
            IN  IF time_range_covered(p1, strat.start, strat.end)
                THEN [cursor |-> progress_reset(r.cursor, p1).cursor,
                      result |-> r.result, strategy |-> strat,
                      progress |-> progress_reset(r.cursor, p1).progress,
                      reset |-> TRUE]
                ELSE [cursor |-> r.cursor, result |-> r.result,
                      strategy |-> strat, progress |-> p1, reset |-> FALSE]
      [] strat.kind = "FrameRangeLoop" ->
            LET p1 == next_frame(prog)
                r  == iter_between_frames(evs, cur, current_frame(prog, strat.start),
                                          current_frame(p1, strat.start))
            IN  IF frame_range_covered(p1, strat.start, strat.end)
                THEN [cursor |-> progress_reset(r.cursor, p1).cursor,
                      result |-> r.result, strategy |-> strat,
                      progress |-> progress_reset(r.cursor, p1).progress,
                      reset |-> TRUE]
                ELSE [cursor |-> r.cursor, result |-> r.result,
                      strategy |-> strat, progress |-> p1, reset |-> FALSE]
      [] strat.kind = "Paused" ->
            paused_arm(evs, cur, strat, prog)

----------------------------------------------------------------------------
(* Sets the initial states and the inputs are drawn from *)

NonDecreasing(S, n) ==
    {q \in [1..n -> S] : \A i \in 1..(n - 1) : q[i] <= q[i + 1]}

\* bounds of the range strategies and keys of events: the ordinary ones and
\* the largest FrameCount
FrameKeys == (0..MaxBound) \cup {FrameMax}
TimeKeys  == 0..MaxBound

Payload(i) == IF i % 2 = 1 THEN TEST_PRESS ELSE TEST_RELEASE

\* logs sorted by frame; an event of frame f was captured at time 2 f + 1
FrameLogs ==
    UNION {{[i \in 1..n |-> TimestampedInputEvent(q[i], 2 * q[i] + 1, Payload(i))] :
              q \in NonDecreasing(FrameKeys, n)} : n \in 0..MaxLen}

\* logs sorted by time; the i-th event was captured on frame i - 1
TimeLogs ==
    UNION {{[i \in 1..n |-> TimestampedInputEvent(i - 1, q[i], Payload(i))] :
              q \in NonDecreasing(TimeKeys, n)} : n \in 0..MaxLen}

FrameRangeKinds == {"FrameRangeOnce", "FrameRangeLoop"}
TimeRangeKinds  == {"TimeRangeOnce", "TimeRangeLoop"}
OnceKinds       == {"FrameRangeOnce", "TimeRangeOnce"}
LoopKinds       == {"FrameRangeLoop", "TimeRangeLoop"}
RangeKinds      == FrameRangeKinds \cup TimeRangeKinds

FrameStrategies ==
    {StratFrameCount, StratPaused}
    \cup {Strat(k, s, e) : k \in FrameRangeKinds, s \in FrameKeys, e \in FrameKeys}
TimeStrategies ==
    {StratTime, StratPaused}
    \cup {Strat(k, s, e) : k \in TimeRangeKinds, s \in TimeKeys, e \in TimeKeys}

\* Time::delta() of a tick: a session paced by frames is ticked at one time
\* unit per frame, a session paced by time at any delta of 0..2 units
TimePaced == strategy0.kind \in TimeRangeKinds \cup {"Time"}
\* a run that repeats an earlier one is ticked at the deltas of that run
Deltas ==
    IF Len(batches) < Len(firstRun) THEN {firstRun[Len(batches) + 1].delta}
    ELSE IF TimePaced THEN {0, 1, 2}
    ELSE {1}

\* complex_timestamped_input() of the tests
ComplexLog ==
    <<TimestampedInputEvent(0, 0, TEST_PRESS),
      TimestampedInputEvent(1, 1, TEST_RELEASE),
      TimestampedInputEvent(2, 2, TEST_PRESS),
      TimestampedInputEvent(2, 3, TEST_PRESS),
      TimestampedInputEvent(3, 3, TEST_PRESS)>>

\* the strategies the tests and the documented scenarios run on it
ComplexStrategies ==
    {StratFrameCount, StratTime, StratPaused}
    \cup {Strat(k, b[1], b[2]) : k \in FrameRangeKinds, b \in {<<1, 4>>, <<2, 5>>}}

\* logs of a session of mixed use: sorted by frame and by time
MixedKeys == {0, 1}
MixedLens == {0, 1, 2}
MixedLogs ==
    UNION {{[i \in 1..n |-> TimestampedInputEvent(f[i], t[i], Payload(i))] :
              f \in NonDecreasing(MixedKeys, n), t \in NonDecreasing(MixedKeys, n)} :
           n \in MixedLens}
MixedStrategies ==
    {StratTime, StratFrameCount, StratPaused}
    \cup {Strat(k, s, e) : k \in RangeKinds, s \in MixedKeys, e \in MixedKeys}

\* what the host delivers on one tick, by class
Host(mb, mw, cm, kb, gp, ae) ==
    [mouse_button |-> mb, mouse_wheel |-> mw, cursor_moved |-> cm,
     keyboard |-> kb, gamepad |-> gp, app_exit |-> ae]
IdleHost == Host(<<>>, <<>>, <<>>, <<>>, <<>>, <<>>)
HostBatches ==
    {IdleHost,
     Host(<<>>, <<>>, <<>>, <<[TEST_PRESS EXCEPT !.window = "w1"]>>, <<>>, <<>>),
     Host(<<MouseButtonInput("w2", "Left")>>, <<>>, <<>>,
          <<[TEST_RELEASE EXCEPT !.window = "w1"]>>, <<>>, <<>>),
     Host(<<>>, <<MouseWheel("w1", "Line")>>, <<CursorMoved("w1", "xy")>>, <<>>,
          <<GamepadEvent("Connected")>>, <<>>),
     Host(<<>>, <<>>, <<>>, <<>>, <<>>, <<AppExit("Error")>>)}

\* the filters a capture is begun with
CaptureModes == {ENABLE_ALL, [ENABLE_ALL EXCEPT !.keyboard = FALSE]}
CaptureWindows == {"None", "w1"}
CapturePaths == {"None", "capture.ron"}

\* the host's input of the capture tests: several events of one class, events
\* of every class, events on either window
ToggleHostBatches ==
    {IdleHost,
     Host(<<>>, <<>>, <<>>,
          <<[TEST_PRESS EXCEPT !.window = "w1"], [TEST_RELEASE EXCEPT !.window = "w1"]>>,
          <<>>, <<>>),
     Host(<<MouseButtonInput("w2", "Left")>>, <<>>, <<>>,
          <<[TEST_PRESS EXCEPT !.window = "w1"]>>, <<>>, <<>>),
     Host(<<MouseButtonInput("w1", "Left"), MouseButtonInput("w2", "Right")>>,
          <<MouseWheel("w2", "Line")>>, <<CursorMoved("w1", "xy")>>,
          <<[TEST_RELEASE EXCEPT !.window = "w2"]>>,
          <<GamepadEvent("Connected")>>, <<AppExit("Error")>>),
     Host(<<>>, <<>>, <<>>, <<>>, <<>>, <<AppExit("Success")>>)}

\* the masks the tests switch between, and each class switched off alone
ToggleModes ==
    {ENABLE_ALL, DISABLE_ALL,
     [ENABLE_ALL EXCEPT !.mouse_buttons = FALSE],
     [ENABLE_ALL EXCEPT !.mouse_motion = FALSE],
     [ENABLE_ALL EXCEPT !.keyboard = FALSE],
     [ENABLE_ALL EXCEPT !.gamepad = FALSE]}

NoOp == [op |-> "none", n |-> 0, strategy |-> StratPaused, cursor |-> 0,
         progress |-> ProgressDefault, events |-> <<>>,
         frame |-> 0, time |-> 0, delta |-> 0, a |-> 0, b |-> 0]

\* the state right after BeginInputPlayback with an inline source: a fresh
\* PlaybackProgress, the log as supplied (cursor 0), no PlaybackWindow
InitPlayback(logs, strategies) ==
    /\ events \in logs
    /\ cursor = 0
    /\ strategy \in strategies
    /\ strategy0 = strategy
    /\ progress = ProgressDefault
    /\ playback_window = "None"
    /\ frame_count = 0
    /\ windows = PrimaryOnly
    /\ elapsed = 0
    /\ emitted = <<>>
    /\ emittedIdx = <<>>
    /\ last = NoOp
    /\ batches = <<>>
    /\ firstRun = <<>>
    /\ delivered = <<>>
    /\ epochClosed = FALSE
    /\ modes = ENABLE_ALL
    /\ window_to_capture = "None"
    /\ playback_file = "None"
    /\ file = <<>>
    /\ final_capture_frame = <<>>
    /\ resources = {"TimestampedInputs", "PlaybackProgress", "PlaybackStrategy"}
    /\ unread = IdleHost
    /\ captured = <<>>
    /\ phase = "playback"

----------------------------------------------------------------------------
(* Actions *)

\* the pre-state an operation records in `last`
Op(name, a, b) ==
    [op |-> name, n |-> last.n + 1, strategy |-> strategy, cursor |-> cursor,
     progress |-> progress, events |-> events, frame |-> frame_count,
     time |-> elapsed, delta |-> 0, a |-> a, b |-> b]

\* a panic ends the application
Panic(name) ==
    /\ phase' = "panicked"
    /\ last' = Op(name, 0, 0)
    /\ UNCHANGED <<logVars, playVars, hostVars, modes, window_to_capture, final_capture_frame,
                   playback_file, file, resources, unread, captured, emitted,
                   emittedIdx, batches, firstRun, delivered, epochClosed, strategy0>>

\* the debug_assert!(is_sorted(..)) of the query that the arm of the strategy
\* calls: compiled in debug builds only
sorted_for(evs, strat) ==
    CASE strat.kind \in {"Time", "TimeRangeOnce", "TimeRangeLoop"} -> is_sorted_time(evs)
      [] strat.kind \in {"FrameCount", "FrameRangeOnce", "FrameRangeLoop"} -> is_sorted_frame(evs)
      [] OTHER -> TRUE

\* One update of the application during playback: the host advances Time by
\* `delta`, playback_timestamped_input runs (schedule First), and the host
\* counts the frame (schedule Last).
Tick(delta) ==
    LET t == elapsed + delta
        r == playback_timestamped_input(events, cursor, strategy, progress,
                                        t, delta, frame_count)
    IN  /\ phase = "playback"
        /\ \E debug_assertions \in BOOLEAN :
             IF \/ single_panics(playback_window, windows)
                \/ debug_assertions /\ ~sorted_for(events, strategy)
             THEN Panic("panic")
             ELSE /\ cursor' = r.cursor
                  /\ windows' = windows_after(events, r.result, windows)
                  /\ strategy' = r.strategy
                  /\ progress' = r.progress
                  /\ elapsed' = t
                  /\ frame_count' = wrapping_add(frame_count, 1)
                  /\ emitted' = send_playback_events(events, r.result,
                                                     window_override(playback_window))
                  /\ emittedIdx' = r.result
                  /\ last' = [op |-> "tick", n |-> last.n + 1, strategy |-> strategy,
                              cursor |-> cursor, progress |-> progress, events |-> events,
                              frame |-> frame_count, time |-> t, delta |-> delta,
                              a |-> 0, b |-> 0]
                  /\ batches' = Append(batches, [delta |-> delta, idx |-> r.result])
                  /\ delivered' = (IF epochClosed THEN <<>> ELSE delivered) \o r.result
                  /\ epochClosed' = r.reset
                  /\ UNCHANGED <<events, strategy0, firstRun, playback_window, capVars>>

\* the arms of the match on the strategy
TickTime           == \E d \in Deltas : strategy.kind = "Time" /\ Tick(d)
TickFrameCount     == \E d \in Deltas : strategy.kind = "FrameCount" /\ Tick(d)
TickTimeRangeOnce  == \E d \in Deltas : strategy.kind = "TimeRangeOnce" /\ Tick(d)
TickFrameRangeOnce == \E d \in Deltas : strategy.kind = "FrameRangeOnce" /\ Tick(d)
TickTimeRangeLoop  == \E d \in Deltas : strategy.kind = "TimeRangeLoop" /\ Tick(d)
TickFrameRangeLoop == \E d \in Deltas : strategy.kind = "FrameRangeLoop" /\ Tick(d)
TickPaused         == \E d \in Deltas : strategy.kind = "Paused" /\ Tick(d)

\* the same bounded-once strategy is installed again right after the tick on
\* which it paused
Reinstalling(s) ==
    /\ last.op = "tick"
    /\ last.strategy = s
    /\ s.kind \in OnceKinds
    /\ strategy = StratPaused

\* The caller inserts a PlaybackStrategy resource (as the tests do with
\* app.insert_resource): only the strategy changes; cursor and progress stay.
InsertStrategy(s) ==
    /\ phase = "playback"
    /\ strategy' = s
    /\ strategy0' = s
    /\ firstRun' = (IF Reinstalling(s) THEN batches ELSE <<>>)
    /\ batches' = <<>>
    /\ last' = Op("insert_strategy", 0, 0)
    /\ UNCHANGED <<logVars, progress, playback_window, capVars, hostVars,
                   emitted, emittedIdx, delivered, epochClosed>>

Reinstall ==
    /\ Reinstalling(last.strategy)
    /\ InsertStrategy(last.strategy)

\* the TimestampedInputs resource is in the World of a running application
log_present == phase \in {"playback", "app"} /\ "TimestampedInputs" \in resources

\* The caller calls a query of the log directly; `r` is what the query
\* returns (new cursor, indices yielded). The queries keyed by frame
\* or by time start with a debug_assert!(is_sorted(..)), which is compiled in
\* debug builds only and panics on a log that is not sorted by that key.
CallQuery(name, a, b, r, sorted) ==
    /\ log_present
    /\ \E debug_assertions \in BOOLEAN :
           IF debug_assertions /\ ~sorted
           THEN Panic(name)
           ELSE /\ cursor' = r.cursor
                /\ emitted' = InputsAt(events, r.result)
                /\ emittedIdx' = r.result
                /\ delivered' = (IF epochClosed THEN <<>> ELSE delivered) \o r.result
                /\ epochClosed' = FALSE
                /\ last' = Op(name, a, b)
                /\ UNCHANGED <<events, playVars, capVars, hostVars, batches,
                               firstRun, strategy0>>

CallNext == CallQuery("next", 0, 0, iter_next(events, cursor), TRUE)
CallIterUntilFrame(f) ==
    CallQuery("iter_until_frame", f, 0, iter_until_frame(events, cursor, f),
              is_sorted_frame(events))
CallIterUntilTime(t) ==
    CallQuery("iter_until_time", t, 0, iter_until_time(events, cursor, t),
              is_sorted_time(events))
CallIterBetweenFrames(a, b) ==
    CallQuery("iter_between_frames", a, b, iter_between_frames(events, cursor, a, b),
              is_sorted_frame(events))
CallIterBetweenTimes(a, b) ==
    CallQuery("iter_between_times", a, b, iter_between_times(events, cursor, a, b),
              is_sorted_time(events))

CallIterAll == CallQuery("iter_all", 0, 0, iter_all(events, cursor), TRUE)
CallIterRest ==
    IF cursor > Len(events)
    THEN log_present /\ Panic("panic")
    ELSE CallQuery("iter_rest", 0, 0, iter_rest(events, cursor), TRUE)

\* The caller changes the events of the log directly: `evs` is the list
\* afterwards (send, send_multiple, sort)
CallUpdate(name, a, b, evs) ==
    /\ log_present
    /\ events' = evs
    /\ last' = Op(name, a, b)
    /\ UNCHANGED <<cursor, playVars, capVars, hostVars, emitted, emittedIdx,
                   batches, firstRun, delivered, epochClosed, strategy0>>

CallSend(frame, time, input_event) ==
    CallUpdate("send", frame, time, send(events, frame, time, input_event))
CallSendMultiple(frame, time, event_stream) ==
    CallUpdate("send_multiple", frame, time,
               send_multiple(events, frame, time, event_stream))
CallSort(sorting_strategy) ==
    CallUpdate("sort", 0, 0, sort(events, sorting_strategy))

\* The caller calls TimestampedInputs::reset_cursor
ResetCursor ==
    /\ log_present
    /\ cursor' = reset_cursor
    /\ emitted' = <<>>
    /\ emittedIdx' = <<>>
    /\ epochClosed' = TRUE
    /\ last' = Op("reset_cursor", 0, 0)
    /\ UNCHANGED <<events, playVars, capVars, hostVars, batches, firstRun,
                   delivered, strategy0>>

\* One update of the application during capture: the host delivers `host` and
\* advances Time, capture_input runs (schedule Last), on `ending` (an
\* EndInputCapture has been sent) serialize_captured_input_on_end_capture_event
\* runs after it and removes the capture resources, and the host counts the
\* frame.
CaptureUpdate(host, ending) ==
    LET t == elapsed + 1
        queue == sent_to(unread, host)
        evs == capture_input(events, modes, window_to_capture, frame_count, t, queue)
    IN  /\ phase = "capture"
        /\ unread' = readers_after(modes, queue)
        /\ captured' = Append(captured,
               [frame |-> frame_count, time |-> t, host |-> host,
                modes |-> modes, window |-> window_to_capture,
                entries |-> SubSeq(evs, Len(events) + 1, Len(evs)),
                log |-> evs, cursor |-> cursor, path |-> playback_file,
                inputs |-> InputsAt(evs, Indices(Len(events), Len(evs)))])
        /\ elapsed' = t
        /\ frame_count' = wrapping_add(frame_count, 1)
        /\ UNCHANGED windows
        /\ last' = Op(IF ending THEN "end_capture" ELSE "capture", 0, 0)
        /\ IF ending
           THEN /\ file' = serialize_timestamped_inputs(evs, cursor, playback_file, file)
                /\ events' = <<>>
                /\ cursor' = 0
                /\ resources' = resources \ CaptureResources
                /\ phase' = "ended"
           ELSE /\ events' = evs
                /\ UNCHANGED <<cursor, file, resources, phase>>
        /\ UNCHANGED <<modes, window_to_capture, final_capture_frame, playback_file, playVars,
                       emitted, emittedIdx, batches, firstRun, delivered,
                       epochClosed, strategy0>>

\* the host is busy on at most MaxBusyTicks ticks of a capture
BusyTicks == Cardinality({k \in 1..Len(captured) : captured[k].host # IdleHost})
HostInputs == IF BusyTicks < MaxBusyTicks THEN HostBatches ELSE {IdleHost}

CaptureTick == \E host \in HostInputs : CaptureUpdate(host, FALSE)
EndCaptureTick == \E host \in HostInputs : CaptureUpdate(host, TRUE)

\* a capture tick on any input of the capture tests
CaptureTickOf(batches_of_host) == \E host \in batches_of_host : CaptureUpdate(host, FALSE)

\* The caller overwrites the InputModesCaptured resource between two updates
\* (as toggle_input_capture does).
InsertModes(m) ==
    /\ phase = "capture"
    /\ modes' = m
    /\ last' = Op("insert_modes", 0, 0)
    /\ UNCHANGED <<logVars, playVars, hostVars, window_to_capture, final_capture_frame, playback_file,
                   file, resources, unread, captured, phase, emitted, emittedIdx, batches,
                   firstRun, delivered, epochClosed, strategy0>>

\* A fresh application with the windows `wins` triggers BeginInputPlayback
\* with the file as source and the FrameCount strategy:
\* BeginInputPlayback::observer.
BeginInputPlaybackIn(pw, wins) ==
    LET inputs == deserialize_timestamped_inputs("capture.ron", file)
    IN  /\ phase = "ended"
        /\ inputs.kind = "Ok"
        /\ events' = inputs.events
        /\ cursor' = inputs.cursor
        /\ progress' = ProgressDefault
        /\ strategy' = StratFrameCount
        /\ strategy0' = StratFrameCount
        /\ playback_window' = pw
        /\ phase' = "playback"
        /\ frame_count' = 0
        /\ windows' = wins
        /\ elapsed' = 0
        /\ emitted' = <<>>
        /\ emittedIdx' = <<>>
        /\ batches' = <<>>
        /\ firstRun' = <<>>
        /\ delivered' = <<>>
        /\ epochClosed' = FALSE
        /\ resources' = {"PlaybackProgress", "PlaybackStrategy", "PlaybackFilePath",
                         "TimestampedInputs"} \cup Optional("PlaybackWindow", pw)
        /\ last' = [NoOp EXCEPT !.op = "begin_playback"]
        /\ UNCHANGED <<modes, window_to_capture, final_capture_frame, playback_file, file, unread, captured>>

\* the replaying application of the tests: one primary window
BeginInputPlayback(pw) == BeginInputPlaybackIn(pw, PrimaryOnly)

----------------------------------------------------------------------------
(* Spec: playback of a supplied log under one installed strategy *)

Init ==
    \/ InitPlayback(FrameLogs, FrameStrategies)
    \/ InitPlayback(TimeLogs, TimeStrategies)
    \/ InitPlayback({ComplexLog}, ComplexStrategies)

\* ticks are explored up to a bound per run; the strategy is installed again
\* at most once
Budget == Len(batches) < (IF TimePaced THEN MaxTimeTicks ELSE MaxTicks)

Next ==
    \/ Budget /\ TickTime
    \/ Budget /\ TickFrameCount
    \/ Budget /\ TickTimeRangeOnce
    \/ Budget /\ TickFrameRangeOnce
    \/ Budget /\ TickTimeRangeLoop
    \/ Budget /\ TickFrameRangeLoop
    \/ Budget /\ TickPaused
    \/ firstRun = <<>> /\ Reinstall

Spec == Init /\ [][Next]_vars

----------------------------------------------------------------------------
(* SpecMixed: ticks under any strategy, interleaved with changes of the
   strategy, direct queries of the log and resets of the cursor *)

InitMixed == InitPlayback(MixedLogs, MixedStrategies)

OpBudget == last.n < MaxOps

NextMixed ==
    \/ OpBudget /\ TickTime
    \/ OpBudget /\ TickFrameCount
    \/ OpBudget /\ TickTimeRangeOnce
    \/ OpBudget /\ TickFrameRangeOnce
    \/ OpBudget /\ TickTimeRangeLoop
    \/ OpBudget /\ TickFrameRangeLoop
    \/ OpBudget /\ TickPaused
    \/ OpBudget /\ \E s \in MixedStrategies : s # strategy /\ InsertStrategy(s)
    \/ OpBudget /\ CallNext
    \/ OpBudget /\ \E f \in MixedKeys : CallIterUntilFrame(f)
    \/ OpBudget /\ \E t \in MixedKeys : CallIterUntilTime(t)
    \/ OpBudget /\ \E a \in MixedKeys, b \in MixedKeys : CallIterBetweenFrames(a, b)
    \/ OpBudget /\ \E a \in MixedKeys, b \in MixedKeys : CallIterBetweenTimes(a, b)
    \/ OpBudget /\ ResetCursor

SpecMixed == InitMixed /\ [][NextMixed]_vars

----------------------------------------------------------------------------
(* SpecRecordReplay: a capture from frame 0 that ends on an EndInputCapture,
   then the playback of the file in a fresh application under FrameCount *)

InitCapturing(mode_set, window_set, path_set) ==
    /\ events = <<>>
    /\ cursor = 0
    /\ strategy = StratPaused
    /\ strategy0 = strategy
    /\ progress = ProgressDefault
    /\ playback_window = "None"
    /\ frame_count = 0
    /\ windows = PrimaryOnly
    /\ elapsed = 0
    /\ emitted = <<>>
    /\ emittedIdx = <<>>
    /\ last = NoOp
    /\ batches = <<>>
    /\ firstRun = <<>>
    /\ delivered = <<>>
    /\ epochClosed = FALSE
    /\ modes \in mode_set
    /\ window_to_capture \in window_set
    /\ playback_file \in path_set
    /\ file = <<>>
    /\ final_capture_frame = <<>>
    /\ resources = {"TimestampedInputs", "InputModesCaptured", "PlaybackFilePath"}
                   \cup Optional("InputCaptureWindow", window_to_capture)
    /\ unread = IdleHost
    /\ captured = <<>>
    /\ phase = "capture"

InitRecord == InitCapturing(CaptureModes, CaptureWindows, CapturePaths)

\* a capture long enough for the FrameCount to wrap
MaxCaptureTicks == FrameModulus + 1

NextRecordReplay ==
    \/ Len(captured) < MaxCaptureTicks - 1 /\ CaptureTick
    \/ Len(captured) < MaxCaptureTicks /\ EndCaptureTick
    \/ \E pw \in {"None", "PrimaryWindow"} : BeginInputPlayback(pw)
    \/ phase = "playback" /\ Len(batches) < MaxTicks /\ TickFrameCount

SpecRecordReplay == InitRecord /\ [][NextRecordReplay]_vars

(* SpecReplayWindows: a short capture, then the playback of the file in an
   application that has, or has not, the window the events were captured on *)

MaxWindowCaptureTicks == 2  \* capture ticks before the playback

NextReplayWindows ==
    \/ Len(captured) < MaxWindowCaptureTicks - 1 /\ CaptureTick
    \/ Len(captured) < MaxWindowCaptureTicks /\ EndCaptureTick
    \/ \E pw \in {"None", "PrimaryWindow"}, wins \in {PrimaryOnly, PrimaryAndW1} :
           BeginInputPlaybackIn(pw, wins)
    \/ phase = "playback" /\ Len(batches) < MaxWindowCaptureTicks + 1 /\ TickFrameCount

SpecReplayWindows == InitRecord /\ [][NextReplayWindows]_vars

----------------------------------------------------------------------------
(* SpecCapture: a capture whose mask the caller changes between updates *)

InitCapture == InitCapturing(ToggleModes, CaptureWindows, {"None"})

NextCapture ==
    \/ last.n < MaxCaptureOps /\ CaptureTickOf(ToggleHostBatches)
    \/ last.n < MaxCaptureOps /\ \E m \in ToggleModes : m # modes /\ InsertModes(m)

SpecCapture == InitCapture /\ [][NextCapture]_vars

----------------------------------------------------------------------------
(* SpecLifecycle: one application with both plugins; captures and playbacks
   begin and end in any order between its updates *)

\* the events of one kind among those sent
sent_of(q, kind) == SelectSeq(q, LAMBDA e : e.kind = kind)

\* send_playback_events writes each event to the EventWriter of its type
by_class(sent) ==
    Host(sent_of(sent, "MouseButton"), sent_of(sent, "MouseWheel"),
         sent_of(sent, "CursorMoved"), sent_of(sent, "Keyboard"),
         sent_of(sent, "Gamepad"), sent_of(sent, "AppExit"))

\* the run conditions of the systems of the two plugins
playback_runs == {"PlaybackProgress", "TimestampedInputs"} \subseteq resources
capture_runs == "InputModesCaptured" \in resources
serialize_runs == capture_runs /\ "PlaybackFilePath" \in resources

\* a system parameter Res/ResMut of a resource that is absent panics
playback_panics == playback_runs /\ "PlaybackStrategy" \notin resources
capture_panics == capture_runs /\ "TimestampedInputs" \notin resources

\* the sources of a BeginInputPlayback
SourceNone == [kind |-> "None", inputs |-> <<>>, path |-> "None"]
SourceFileAt(path) == [kind |-> "File", inputs |-> <<>>, path |-> path]
SourceFile == SourceFileAt("capture.ron")
SourceInputs(inputs) == [kind |-> "TimestampedInputs", inputs |-> inputs, path |-> "None"]

\* the log of the playback tests: a press on frame 0, a release on frame 1
SimpleLog ==
    <<TimestampedInputEvent(0, 0, TEST_PRESS), TimestampedInputEvent(1, 0, TEST_RELEASE)>>

LifecycleSources == {SourceNone, SourceFile, SourceInputs(SimpleLog)}
LifecycleStrategies == {StratFrameCount, StratPaused, Strat("FrameRangeOnce", 0, 1)}
LifecycleWindows == {"None", "PrimaryWindow"}
\* frames_to_capture: None (<<>>) or Some(k) (<<k>>)
LifecycleFrames == {<<>>, <<0>>, <<1>>}
LifecycleHosts ==
    {IdleHost,
     Host(<<>>, <<>>, <<>>, <<TEST_PRESS>>, <<>>, <<>>),
     Host(<<>>, <<>>, <<>>, <<>>, <<>>, <<AppExit("Success")>>)}

\* an application that has not updated yet, with `present` in its World
InitAppWith(present, content, wins) ==
    /\ events = <<>>
    /\ cursor = 0
    /\ strategy = StratPaused
    /\ strategy0 = strategy
    /\ progress = ProgressDefault
    /\ playback_window = "None"
    /\ frame_count = 0
    /\ windows = wins
    /\ elapsed = 0
    /\ emitted = <<>>
    /\ emittedIdx = <<>>
    /\ last = NoOp
    /\ batches = <<>>
    /\ firstRun = <<>>
    /\ delivered = <<>>
    /\ epochClosed = FALSE
    /\ modes = ENABLE_ALL
    /\ window_to_capture = "None"
    /\ playback_file = "None"
    /\ file = content
    /\ final_capture_frame = <<>>
    /\ resources = present
    /\ unread = IdleHost
    /\ captured = <<>>
    /\ phase = "app"

\* the application of the tests: one primary window, no file written yet
InitApp(present) == InitAppWith(present, <<>>, PrimaryOnly)

\* a fresh application, with or without a primary window: no resource of the
\* crate is present
InitLifecycle == \E wins \in {NoWindows, PrimaryOnly} : InitAppWith({}, <<>>, wins)

\* A BeginInputCapture is sent and the next update starts: initiate_input_capture
\* (schedule First) queues the resources, which exist from then on.
BeginInputCapture(input_modes_captured, filepath, frames_to_capture, window) ==
    /\ phase = "app"
    /\ events' = IF "TimestampedInputs" \in resources THEN events ELSE <<>>
    /\ cursor' = IF "TimestampedInputs" \in resources THEN cursor ELSE 0
    /\ modes' = input_modes_captured
    /\ playback_file' = IF filepath # "None" \/ "PlaybackFilePath" \notin resources
                        THEN filepath ELSE playback_file
    /\ final_capture_frame' = IF frames_to_capture # <<>>
                              THEN <<wrapping_add(frame_count, frames_to_capture[1])>>
                              ELSE final_capture_frame
    /\ window_to_capture' = IF window # "None" THEN window ELSE window_to_capture
    /\ resources' = resources
                    \cup {"TimestampedInputs", "InputModesCaptured", "PlaybackFilePath"}
                    \cup (IF frames_to_capture # <<>> THEN {"FinalCaptureFrame"} ELSE {})
                    \cup Optional("InputCaptureWindow", window)
    /\ last' = Op("begin_capture",
                  [input_modes_captured |-> input_modes_captured, filepath |-> filepath,
                   frames_to_capture |-> frames_to_capture, window_to_capture |-> window],
                  0)
    /\ UNCHANGED <<playVars, hostVars, file, unread, captured, phase, emitted,
                   emittedIdx, batches, firstRun, delivered, epochClosed, strategy0>>

\* BeginInputPlayback is triggered: BeginInputPlayback::observer
TriggerBeginInputPlayback(source, playback_strategy, pw) ==
    /\ phase = "app"
    /\ LET loaded == deserialize_timestamped_inputs(source.path, file)
       IN
       IF source.kind = "File" /\ loaded.kind # "Ok"
       THEN Panic(CASE loaded.kind = "Fs" -> "unwrap_fs"
                    [] loaded.kind = "Ron" -> "unwrap_ron"
                    [] OTHER -> "unwrap_none")
       ELSE LET inputs == CASE source.kind = "File" -> loaded
                            [] source.kind = "TimestampedInputs" ->
                                   [events |-> source.inputs, cursor |-> 0]
                            [] OTHER -> [events |-> events, cursor |-> cursor]
            IN  /\ progress' = IF "PlaybackProgress" \in resources
                               THEN progress ELSE ProgressDefault
                /\ strategy' = playback_strategy
                /\ strategy0' = playback_strategy
                /\ events' = inputs.events
                /\ cursor' = inputs.cursor
                /\ playback_file' = IF source.kind = "File" THEN source.path
                                    ELSE playback_file
                /\ playback_window' = IF pw # "None" THEN pw ELSE playback_window
                /\ resources' = resources
                                \cup {"PlaybackProgress", "PlaybackStrategy"}
                                \cup Optional("TimestampedInputs", source.kind)
                                \cup (IF source.kind = "File" THEN {"PlaybackFilePath"} ELSE {})
                                \cup Optional("PlaybackWindow", pw)
                /\ last' = Op("begin_playback",
                              [source |-> source, playback_strategy |-> playback_strategy,
                               playback_window |-> pw],
                              0)
                /\ UNCHANGED <<hostVars, modes, window_to_capture, final_capture_frame, file, unread,
                               captured, phase, emitted, emittedIdx, batches,
                               firstRun, delivered, epochClosed>>

\* EndInputPlayback is triggered: EndInputPlayback::observer
TriggerEndInputPlayback ==
    /\ phase = "app"
    /\ events' = <<>>
    /\ cursor' = 0
    /\ progress' = ProgressDefault
    /\ strategy' = StratPaused
    /\ playback_window' = "None"
    /\ playback_file' = "None"
    /\ resources' = resources \ PlaybackResources
    /\ last' = Op("end_playback", 0, 0)
    /\ UNCHANGED <<hostVars, modes, window_to_capture, final_capture_frame, file, unread, captured,
                   phase, emitted, emittedIdx, batches, firstRun, delivered,
                   epochClosed, strategy0>>

\* One update of the application. The host has sent `host` and, on `ending`,
\* an EndInputCapture. playback_timestamped_input runs in First when its run
\* condition holds; capture_input and the serializing systems run in Last when
\* theirs hold, and see what the playback sent; the capture ends on an
\* EndInputCapture and on the final capture frame; the host counts the frame.
\* A system whose resource is absent panics, and so does, in a debug build,
\* a playback on a log that is not sorted by the key of the strategy.
Update(host, ending) ==
    LET t == elapsed + 1
        r == IF playback_runs
             THEN playback_timestamped_input(events, cursor, strategy, progress,
                                             t, 1, frame_count)
             ELSE [cursor |-> cursor, result |-> <<>>, strategy |-> strategy,
                   progress |-> progress, reset |-> FALSE]
        played == send_playback_events(events, r.result,
                                       window_override(playback_window))
        queue == sent_to(sent_to(unread, host), by_class(played))
        evs == IF capture_runs
               THEN capture_input(events, modes, window_to_capture, frame_count, t, queue)
               ELSE events
        final == "FinalCaptureFrame" \in resources /\ <<frame_count>> = final_capture_frame
        ends == serialize_runs /\ (ending \/ final)
        exits == serialize_runs /\ queue.app_exit # <<>>
    IN  /\ phase = "app"
        /\ \E debug_assertions \in BOOLEAN :
           IF \/ playback_panics
              \/ capture_panics
              \/ playback_runs /\ single_panics(playback_window, windows)
              \/ playback_runs /\ debug_assertions /\ ~sorted_for(events, strategy)
           THEN Panic("panic")
           ELSE /\ strategy' = r.strategy
                /\ progress' = r.progress
                /\ emitted' = played
                /\ emittedIdx' = r.result
                /\ batches' = IF playback_runs
                              THEN Append(batches, [delta |-> 1, idx |-> r.result])
                              ELSE batches
                /\ delivered' = (IF epochClosed THEN <<>> ELSE delivered) \o r.result
                /\ epochClosed' = r.reset
                /\ unread' = IF capture_runs THEN readers_after(modes, queue)
                             ELSE by_class(played)
                /\ captured' = IF capture_runs
                               THEN Append(captured,
                                      [frame |-> frame_count, time |-> t, host |-> host,
                                       modes |-> modes, window |-> window_to_capture,
                                       entries |-> SubSeq(evs, Len(events) + 1, Len(evs)),
                                       log |-> evs, cursor |-> r.cursor,
                                       path |-> playback_file,
                                       inputs |-> InputsAt(evs, Indices(Len(events), Len(evs)))])
                               ELSE captured
                /\ file' = IF ends \/ exits
                           THEN serialize_timestamped_inputs(evs, r.cursor, playback_file, file)
                           ELSE file
                /\ events' = IF ends THEN <<>> ELSE evs
                /\ cursor' = IF ends THEN 0 ELSE r.cursor
                /\ modes' = IF ends THEN ENABLE_ALL ELSE modes
                /\ window_to_capture' = IF ends THEN "None" ELSE window_to_capture
                /\ final_capture_frame' = IF ends THEN <<>> ELSE final_capture_frame
                /\ playback_file' = IF ends THEN "None" ELSE playback_file
                /\ resources' = IF ends THEN resources \ CaptureResources ELSE resources
                /\ elapsed' = t
                /\ frame_count' = wrapping_add(frame_count, 1)
                /\ windows' = windows_after(events, r.result, windows)
                /\ last' = [Op(IF ends THEN "end_capture" ELSE "update", 0, 0)
                              EXCEPT !.time = t, !.delta = 1]
                /\ UNCHANGED <<playback_window, phase, firstRun, strategy0>>

MaxLifecycleOps == 4

NextLifecycle ==
    \/ last.n < MaxLifecycleOps
       /\ \E path \in CapturePaths, frames \in LifecycleFrames :
              BeginInputCapture(ENABLE_ALL, path, frames, "None")
    \/ last.n < MaxLifecycleOps
       /\ \E source \in LifecycleSources, s \in LifecycleStrategies,
             pw \in LifecycleWindows :
              TriggerBeginInputPlayback(source, s, pw)
    \/ last.n < MaxLifecycleOps /\ TriggerEndInputPlayback
    \/ last.n < MaxLifecycleOps
       /\ \E host \in LifecycleHosts, ending \in BOOLEAN : Update(host, ending)

SpecLifecycle == InitLifecycle /\ [][NextLifecycle]_vars

(* SpecLoad: an application that finds a file absent, truncated or whole
   begins a playback from any source and updates *)

\* the file a capture of the log wrote, and the same cut before its cursor
WholeFile == to_ron(SimpleLog, 0)
TruncatedFile == <<WholeFile[1]>>
LoadFiles == {<<>>, TruncatedFile, WholeFile, to_ron(<<>>, 0)}
LoadSources == LifecycleSources \cup {SourceFileAt("None")}

InitLoad == \E content \in LoadFiles : InitAppWith({}, content, PrimaryOnly)

MaxLoadOps == 3

NextLoad ==
    \/ last.n < MaxLoadOps
       /\ \E source \in LoadSources, s \in LifecycleStrategies, pw \in LifecycleWindows :
              TriggerBeginInputPlayback(source, s, pw)
    \/ last.n < MaxLoadOps /\ TriggerEndInputPlayback
    \/ last.n < MaxLoadOps /\ \E host \in LifecycleHosts : Update(host, FALSE)

SpecLoad == InitLoad /\ [][NextLoad]_vars

(* SpecPausedCapture: one application captures into the log that a paused
   playback holds; the caller then overwrites the capture mask and the
   strategy with app.insert_resource, as the test capture_and_playback does *)

\* app.insert_resource(InputModesCaptured)
InsertModesResource(m) ==
    /\ phase = "app"
    /\ modes' = m
    /\ resources' = resources \cup {"InputModesCaptured"}
    /\ last' = Op("insert_modes", 0, 0)
    /\ UNCHANGED <<logVars, playVars, hostVars, window_to_capture, final_capture_frame,
                   playback_file, file, unread, captured, phase, emitted, emittedIdx,
                   batches, firstRun, delivered, epochClosed, strategy0>>

\* app.insert_resource(PlaybackStrategy)
InsertStrategyResource(s) ==
    /\ phase = "app"
    /\ strategy' = s
    /\ strategy0' = s
    /\ resources' = resources \cup {"PlaybackStrategy"}
    /\ batches' = <<>>
    /\ last' = Op("insert_strategy", 0, 0)
    /\ UNCHANGED <<logVars, progress, playback_window, hostVars, modes,
                   window_to_capture, final_capture_frame, playback_file, file, unread,
                   captured, phase, emitted, emittedIdx, firstRun, delivered,
                   epochClosed>>

MaxPausedOps == 6

NextPausedCapture ==
    \/ last.n < MaxPausedOps
       /\ TriggerBeginInputPlayback(SourceInputs(<<>>), StratPaused, "None")
    \/ last.n < MaxPausedOps /\ BeginInputCapture(ENABLE_ALL, "None", <<>>, "None")
    \/ last.n < MaxPausedOps /\ \E host \in LifecycleHosts : Update(host, FALSE)
    \/ last.n < MaxPausedOps
       /\ \E m \in {ENABLE_ALL, DISABLE_ALL} : m # modes /\ InsertModesResource(m)
    \/ last.n < MaxPausedOps
       /\ \E s \in {StratPaused, StratFrameCount} : s # strategy /\ InsertStrategyResource(s)

SpecPausedCapture == InitApp({}) /\ [][NextPausedCapture]_vars

----------------------------------------------------------------------------
(* SpecPaths: one application in which the log is written by capture ticks
   and by direct sends, and read by playback ticks under each strategy *)

PathLogs == {<<>>, SimpleLog}
PathStrategies ==
    {StratTime, StratFrameCount, StratPaused}
    \cup {Strat(k, 0, 1) : k \in RangeKinds}

MaxPathOps == 4  \* operations explored in SpecPaths

NextPaths ==
    \/ last.n < MaxPathOps /\ BeginInputCapture(ENABLE_ALL, "None", <<>>, "None")
    \/ last.n < MaxPathOps
          /\ \E inputs \in PathLogs, s \in PathStrategies :
                TriggerBeginInputPlayback(SourceInputs(inputs), s, "None")
    \/ last.n < MaxPathOps /\ \E host \in LifecycleHosts : Update(host, FALSE)
    \/ last.n < MaxPathOps /\ \E f \in MixedKeys, t \in MixedKeys : CallSend(f, t, TEST_PRESS)
    \/ last.n < MaxPathOps
          /\ \E f \in MixedKeys : CallSendMultiple(f, f, <<TEST_PRESS, TEST_RELEASE>>)

SpecPaths == InitApp({}) /\ [][NextPaths]_vars

----------------------------------------------------------------------------
(* SpecTicking: a bounded-once strategy installed on a fresh session that is
   then ticked for ever.  The history variables are left alone and the clock,
   which no arm of a range strategy reads, is held at MaxClock, so that the
   states of a session that never pauses recur. *)

MaxClock == 4  \* Time::elapsed() is held here once it is reached

\* One update of the application during playback, as Tick: the host advances
\* Time by `delta`, playback_timestamped_input runs, the host counts the frame.
TickForever(delta) ==
    LET t == IF elapsed + delta > MaxClock THEN MaxClock ELSE elapsed + delta
        r == playback_timestamped_input(events, cursor, strategy, progress,
                                        t, delta, frame_count)
    IN  /\ phase = "playback"
        /\ \E debug_assertions \in BOOLEAN :
             IF \/ single_panics(playback_window, windows)
                \/ debug_assertions /\ ~sorted_for(events, strategy)
             THEN Panic("panic")
             ELSE /\ cursor' = r.cursor
                  /\ windows' = windows_after(events, r.result, windows)
                  /\ strategy' = r.strategy
                  /\ progress' = r.progress
                  /\ elapsed' = t
                  /\ frame_count' = wrapping_add(frame_count, 1)
                  /\ emitted' = send_playback_events(events, r.result,
                                                     window_override(playback_window))
                  /\ emittedIdx' = r.result
                  /\ last' = [op |-> "tick", n |-> 1, strategy |-> strategy,
                              cursor |-> cursor, progress |-> progress, events |-> events,
                              frame |-> frame_count, time |-> t, delta |-> delta,
                              a |-> 0, b |-> 0]
                  /\ UNCHANGED <<events, strategy0, firstRun, playback_window, capVars,
                                 batches, delivered, epochClosed>>

\* the bounded-once strategies with start <= end
OnceStrategies ==
    {Strat("FrameRangeOnce", s, e) : s \in FrameKeys, e \in FrameKeys}
    \cup {Strat("TimeRangeOnce", s, e) : s \in TimeKeys, e \in TimeKeys}
WellFormedOnce == {s \in OnceStrategies : s.start <= s.end}

InitTicking ==
    \/ InitPlayback(FrameLogs, {s \in WellFormedOnce : s.kind = "FrameRangeOnce"})
    \/ InitPlayback(TimeLogs, {s \in WellFormedOnce : s.kind = "TimeRangeOnce"})

\* a tick on which time has passed, and one on which it has not
PositiveTick == \E d \in (IF TimePaced THEN {1, 2} ELSE {1}) : TickForever(d)
IdleTick == TimePaced /\ TickForever(0)

NextTicking ==
    \/ PositiveTick
    \/ IdleTick

\* the host keeps running updates on which time passes
SpecTicking == InitTicking /\ [][NextTicking]_vars /\ WF_vars(PositiveTick)

----------------------------------------------------------------------------
(* SpecRoundTrip: a log of any content and cursor is written to a file with
   serialize_timestamped_inputs and read back with deserialize_timestamped_inputs *)

\* one logged event of each class
RoundTripPayloads ==
    {TEST_PRESS, MouseButtonInput("w1", "Pressed"), GamepadEvent("Connected"),
     into_input_event(AppExit("Error"))}

\* logs of up to MaxLen events with non-decreasing frames
RoundTripLogs ==
    UNION {{[i \in 1..n |-> TimestampedInputEvent(f[i], 2 * f[i] + 1, pl[i])] :
              f \in NonDecreasing(MixedKeys, n), pl \in [1..n -> RoundTripPayloads]} :
           n \in 0..MaxLen}

InitRoundTrip ==
    /\ events \in RoundTripLogs
    /\ cursor \in 0..Len(events)
    /\ strategy = StratPaused
    /\ strategy0 = strategy
    /\ progress = ProgressDefault
    /\ playback_window = "None"
    /\ frame_count = 0
    /\ windows = PrimaryOnly
    /\ elapsed = 0
    /\ emitted = <<>>
    /\ emittedIdx = <<>>
    /\ last = NoOp
    /\ batches = <<>>
    /\ firstRun = <<>>
    /\ delivered = <<>>
    /\ epochClosed = FALSE
    /\ modes = ENABLE_ALL
    /\ window_to_capture = "None"
    /\ playback_file = "capture.ron"
    /\ file = <<>>
    /\ final_capture_frame = <<>>
    /\ resources = {"TimestampedInputs", "PlaybackFilePath"}
    /\ unread = IdleHost
    /\ captured = <<>>
    /\ phase = "serde"

\* the caller writes the log to the file: serialize_timestamped_inputs
SerializeLog ==
    /\ phase = "serde"
    /\ last.op = "none"
    /\ file' = serialize_timestamped_inputs(events, cursor, playback_file, file)
    /\ last' = Op("serialize", 0, 0)
    /\ UNCHANGED <<logVars, playVars, hostVars, modes, window_to_capture, final_capture_frame,
                   playback_file, resources, unread, captured, phase, emitted,
                   emittedIdx, batches, firstRun, delivered, epochClosed, strategy0>>

\* the caller reads the file and installs what it holds as the log:
\* deserialize_timestamped_inputs
DeserializeLog ==
    LET inputs == from_reader(file)
    IN  /\ phase = "serde"
        /\ last.op = "serialize"
        /\ events' = inputs.events
        /\ cursor' = inputs.cursor
        /\ last' = Op("deserialize", 0, 0)
        /\ UNCHANGED <<playVars, hostVars, capVars, emitted, emittedIdx, batches,
                       firstRun, delivered, epochClosed, strategy0>>

NextRoundTrip ==
    \/ SerializeLog
    \/ DeserializeLog

SpecRoundTrip == InitRoundTrip /\ [][NextRoundTrip]_vars

----------------------------------------------------------------------------
(* SpecQueries: direct calls of the queries on a log that is sorted by frame
   and whose times are arbitrary *)

QueryLogs ==
    UNION {{[i \in 1..n |-> TimestampedInputEvent(f[i], t[i], Payload(i))] :
              f \in NonDecreasing(MixedKeys, n), t \in [1..n -> MixedKeys]} :
           n \in 0..MaxLen}

InitQueries == InitPlayback(QueryLogs, {StratPaused})

NextQueries ==
    \/ OpBudget /\ CallNext
    \/ OpBudget /\ \E f \in MixedKeys : CallIterUntilFrame(f)
    \/ OpBudget /\ \E t \in MixedKeys : CallIterUntilTime(t)
    \/ OpBudget /\ \E a \in MixedKeys, b \in MixedKeys : CallIterBetweenFrames(a, b)
    \/ OpBudget /\ \E a \in MixedKeys, b \in MixedKeys : CallIterBetweenTimes(a, b)
    \/ OpBudget /\ ResetCursor

SpecQueries == InitQueries /\ [][NextQueries]_vars

(* SpecRange: the range queries called with any bounds, from any cursor, on
   those logs and on the log of the unit tests *)

RangeKeys == {0, 1, 3}

InitRange == InitPlayback(QueryLogs \cup {ComplexLog}, {StratPaused})

MaxRangeOps == 2

NextRange ==
    \/ last.n < MaxRangeOps /\ CallNext
    \/ last.n < MaxRangeOps /\ \E a \in RangeKeys, b \in RangeKeys : CallIterBetweenFrames(a, b)
    \/ last.n < MaxRangeOps /\ \E a \in RangeKeys, b \in RangeKeys : CallIterBetweenTimes(a, b)
    \/ last.n < MaxRangeOps /\ ResetCursor

SpecRange == InitRange /\ [][NextRange]_vars

(* SpecIteration: every iteration method called in any order on those logs,
   with resets of the cursor between the calls, as tests::repeated_iteration
   does *)

\* the bounds of repeated_iteration: past every key, and the ranges [1, 3)
\* and [0, 3)
IterationKeys == {1, FrameMax}
IterationRanges == {<<1, 3>>, <<0, 3>>}

MaxIterationOps == 3

NextIteration ==
    \/ last.n < MaxIterationOps /\ CallNext
    \/ last.n < MaxIterationOps /\ CallIterAll
    \/ last.n < MaxIterationOps /\ CallIterRest
    \/ last.n < MaxIterationOps /\ \E f \in IterationKeys : CallIterUntilFrame(f)
    \/ last.n < MaxIterationOps /\ \E t \in IterationKeys : CallIterUntilTime(t)
    \/ last.n < MaxIterationOps
       /\ \E r \in IterationRanges : CallIterBetweenFrames(r[1], r[2])
    \/ last.n < MaxIterationOps
       /\ \E r \in IterationRanges : CallIterBetweenTimes(r[1], r[2])
    \/ last.n < MaxIterationOps /\ ResetCursor

SpecIteration == InitRange /\ [][NextIteration]_vars

----------------------------------------------------------------------------
(* SpecLog: an application whose World holds an empty log at first; the
   caller calls the methods of the log between updates on which a capture
   and a playback use it *)

InitLog == InitApp({"TimestampedInputs"})

LogStrategies == {StratFrameCount, StratTime, Strat("FrameRangeLoop", 0, 1)}
SortingStrategies == {"FrameCount", "TimeSinceStartup"}

NextLog ==
    \/ OpBudget /\ BeginInputCapture(ENABLE_ALL, "None", <<>>, "None")
    \/ OpBudget /\ \E s \in LogStrategies : TriggerBeginInputPlayback(SourceNone, s, "None")
    \/ OpBudget /\ \E host \in LifecycleHosts : Update(host, FALSE)
    \/ OpBudget /\ \E f \in MixedKeys, t \in MixedKeys : CallSend(f, t, TEST_PRESS)
    \/ OpBudget /\ \E f \in MixedKeys :
                      CallSendMultiple(f, f, <<TEST_PRESS, TEST_RELEASE>>)
    \/ OpBudget /\ \E by \in SortingStrategies : CallSort(by)
    \/ OpBudget /\ CallNext
    \/ OpBudget /\ CallIterAll
    \/ OpBudget /\ CallIterRest
    \/ OpBudget /\ \E f \in MixedKeys : CallIterUntilFrame(f)
    \/ OpBudget /\ \E t \in MixedKeys : CallIterUntilTime(t)
    \/ OpBudget /\ \E a \in MixedKeys, b \in MixedKeys : CallIterBetweenFrames(a, b)
    \/ OpBudget /\ \E a \in MixedKeys, b \in MixedKeys : CallIterBetweenTimes(a, b)
    \/ OpBudget /\ ResetCursor

SpecLog == InitLog /\ [][NextLog]_vars

----------------------------------------------------------------------------
(* SpecProgress: the methods of a PlaybackProgress called directly, as the
   unit tests of input_playback.rs do, next to a log that is being read *)

\* a call that only reads the progress: `value` is what it returns
CallProgressGetter(name, start, value) ==
    /\ phase = "playback"
    /\ last' = Op(name, start, value)
    /\ UNCHANGED <<logVars, playVars, capVars, hostVars, emitted, emittedIdx,
                   batches, firstRun, delivered, epochClosed, strategy0>>

\* a call that advances the progress to `prog` and returns `value`
CallProgressAdvance(name, start, delta, prog, value) ==
    /\ phase = "playback"
    /\ progress' = prog
    /\ last' = [Op(name, start, value) EXCEPT !.delta = delta]
    /\ UNCHANGED <<logVars, strategy, playback_window, capVars, hostVars, emitted,
                   emittedIdx, batches, firstRun, delivered, epochClosed, strategy0>>

CallCurrentFrame(start) ==
    CallProgressGetter("current_frame", start, current_frame(progress, start))
CallCurrentTime(start) ==
    CallProgressGetter("current_time", start, current_time(progress, start))
CallNextFrame(start) ==
    CallProgressAdvance("next_frame", start, 0, next_frame(progress),
                        current_frame(next_frame(progress), start))
CallNextTime(delta, start) ==
    CallProgressAdvance("next_time", start, delta, next_time(progress, delta),
                        current_time(next_time(progress, delta), start))

\* PlaybackProgress::reset(&mut timestamped_input)
CallProgressReset ==
    /\ phase = "playback"
    /\ cursor' = progress_reset(cursor, progress).cursor
    /\ progress' = progress_reset(cursor, progress).progress
    /\ last' = Op("progress_reset", 0, 0)
    /\ UNCHANGED <<events, strategy, playback_window, capVars, hostVars, emitted,
                   emittedIdx, batches, firstRun, delivered, epochClosed, strategy0>>

\* start values: the first frames and the last one; the first instants
ProgressFrames == {0, 1, FrameMax}
ProgressTimes == {0, 1}
ProgressDeltas == {0, 1, 2}

InitProgress == InitPlayback({<<>>, SimpleLog}, {StratPaused})

MaxProgressOps == 9

NextProgress ==
    \/ last.n < MaxProgressOps /\ \E start \in ProgressFrames : CallCurrentFrame(start)
    \/ last.n < MaxProgressOps /\ \E start \in ProgressTimes : CallCurrentTime(start)
    \/ last.n < MaxProgressOps /\ \E start \in ProgressFrames : CallNextFrame(start)
    \/ last.n < MaxProgressOps
       /\ \E delta \in ProgressDeltas, start \in ProgressTimes : CallNextTime(delta, start)
    \/ last.n < MaxProgressOps /\ CallProgressReset
    \/ last.n < MaxProgressOps /\ CallNext

SpecProgress == InitProgress /\ [][NextProgress]_vars

----------------------------------------------------------------------------
(* Properties *)

StrictlyIncreasing(q) == \A i \in 1..(Len(q) - 1) : q[i] < q[i + 1]

TickedUnder(kinds) == last.op = "tick" /\ last.strategy.kind \in kinds

\* C3: a tick under Time (resp. FrameCount) emits exactly the events from the
\* cursor onward whose time_since_startup is <= the elapsed time (resp. whose
\* frame is <= the frame count), in log order; the cursor ends just past the
\* last of them; the strategy and the progress are unchanged.  On the log with
\* frames 0,1,2,2,3 ticked at frames 0,1,2,3 the cursor is 1, 2, 4, 5.
C3_UntilTick ==
    /\ TickedUnder({"Time", "FrameCount"}) =>
          LET due(i) == IF last.strategy.kind = "Time"
                        THEN events[i + 1].time_since_startup <= last.time
                        ELSE events[i + 1].frame <= last.frame
              expect == SelectSeq(Indices(last.cursor, Len(events)), due)
          IN  /\ emittedIdx = expect
              /\ emitted = InputsAt(events, expect)
              /\ cursor = last.cursor + Len(expect)
              /\ strategy = last.strategy
              /\ progress = last.progress
    /\ (events = ComplexLog /\ strategy0 = StratFrameCount /\ last.n \in 1..4)
          => cursor = <<1, 2, 4, 5>>[last.n]

C3_Witness ==
    /\ events = ComplexLog
    /\ TickedUnder({"FrameCount"})
    /\ last.cursor = 2
    /\ emittedIdx = <<2, 3>>
    /\ cursor = 4

\* the bounded pass a fresh session runs: installed once, never re-installed
N == last.n
FreshRun(kinds) ==
    /\ strategy0.kind \in kinds
    /\ firstRun = <<>>
    /\ Len(batches) = N
Batch(k) == batches[k].idx

\* C5 as stated: on the log with frames 0,1,2,2,3 under FrameRangeOnce(1,4),
\* tick 1 emits the event of frame 1, tick 2 the two events of frame 2, tick 3
\* the event of frame 3, the strategy is Paused after tick 3, and tick 4 emits
\* nothing.
C5_AsStated ==
    (events = ComplexLog /\ FreshRun({"FrameRangeOnce"})
       /\ strategy0.start = 1 /\ strategy0.end = 4) =>
        /\ N >= 1 => Batch(1) = <<1>>
        /\ N >= 2 => Batch(2) = <<2, 3>>
        /\ N >= 3 => Batch(3) = <<4>>
        /\ N = 3 => strategy = StratPaused
        /\ N >= 4 => Batch(4) = <<>>

\* C5 as amended: the same batches, but the strategy is still
\* FrameRangeOnce(1,4) after tick 3 and becomes Paused on tick 4, which emits
\* nothing.
C5_BoundedOnceScenario ==
    (events = ComplexLog /\ FreshRun({"FrameRangeOnce"})
       /\ strategy0.start = 1 /\ strategy0.end = 4) =>
        /\ N >= 1 => Batch(1) = <<1>>
        /\ N >= 2 => Batch(2) = <<2, 3>>
        /\ N >= 3 => Batch(3) = <<4>>
        /\ N <= 3 => strategy = strategy0
        /\ N >= 4 => Batch(4) = <<>> /\ strategy = StratPaused
        /\ N > 4 => emittedIdx = <<>>

C5_Witness ==
    /\ events = ComplexLog /\ FreshRun({"FrameRangeOnce"})
    /\ strategy0.start = 1 /\ strategy0.end = 4
    /\ N = 4
    /\ last.strategy = strategy0
    /\ strategy = StratPaused

\* C6: FrameRangeOnce(start,end) with start <= end, started with zero
\* progress, is unchanged after each of the first end - start ticks and Paused
\* after tick end - start + 1; every later tick emits nothing and the strategy
\* stays Paused.
C6_CompletionTick ==
    (FreshRun({"FrameRangeOnce"}) /\ strategy0.start <= strategy0.end) =>
        LET span == strategy0.end - strategy0.start IN
        /\ N <= span => strategy = strategy0
        /\ N >= span + 1 => strategy = StratPaused
        /\ N > span + 1 => emittedIdx = <<>>

\* C6 restricted to end below the largest FrameCount (holds)
C6_BelowMax ==
    strategy0.end < FrameMax => C6_CompletionTick

\* the key a range strategy reads
KeyOf(kind, ev) ==
    IF kind \in FrameRangeKinds THEN ev.frame ELSE ev.time_since_startup

\* C7: under a bounded strategy (frame or time bounds, once or loop) every
\* event emitted on a tick has a key k with start <= k < end; an event whose
\* key is end or more is never emitted.  Stated for well-formed bounds
\* (start <= end) below the largest FrameCount, where nothing wraps.
C7_HalfOpenRange ==
    (TickedUnder(RangeKinds) /\ last.strategy.start <= last.strategy.end
        /\ last.strategy.end < FrameMax) =>
        \A i \in 1..Len(emittedIdx) :
            LET k == KeyOf(last.strategy.kind, events[emittedIdx[i] + 1]) IN
            last.strategy.start <= k /\ k < last.strategy.end

\* the number of times index i occurs in the batches 1..m
RECURSIVE Occurrences(_, _)
Occurrences(i, m) ==
    IF m = 0 THEN 0
    ELSE Occurrences(i, m - 1)
         + Cardinality({j \in 1..Len(Batch(m)) : Batch(m)[j] = i})

\* C8: in a pass of FrameRangeOnce/FrameRangeLoop(start,end) that begins with
\* cursor 0 and zero progress on a frame-sorted log, every event with
\* start <= frame < end is emitted exactly once, on tick k of the pass where
\* frame = start + k - 1.
C8_PassCompleteness ==
    FreshRun(FrameRangeKinds) =>
        LET passLen == strategy0.end - strategy0.start + 1
            done    == IF N < passLen THEN N ELSE passLen
        IN  \A i \in 0..(Len(events) - 1) :
              LET f == events[i + 1].frame
                  k == f - strategy0.start + 1
              IN  (strategy0.start <= f /\ f < strategy0.end) =>
                    /\ k <= done => \E j \in 1..Len(Batch(k)) : Batch(k)[j] = i
                    /\ Occurrences(i, done) = (IF k <= done THEN 1 ELSE 0)

C8_Witness ==
    /\ FreshRun({"FrameRangeLoop"})
    /\ strategy0.start = 1 /\ strategy0.end = 3
    /\ Len(events) = 3
    /\ events[1].frame = 0 /\ events[2].frame = 1 /\ events[3].frame = 2
    /\ N = 3
    /\ Batch(1) = <<1>> /\ Batch(2) = <<2>> /\ Batch(3) = <<>>

\* C9: on the tick at which a bounded-once strategy becomes Paused the cursor
\* is 0 and both progress counters are zero; installing the same strategy
\* again reproduces, tick for tick (under the same tick deltas), the batches
\* of the run before.
C9_ReadyForReplay ==
    /\ (TickedUnder(OnceKinds) /\ strategy = StratPaused) =>
          cursor = 0 /\ progress = ProgressDefault
    /\ (strategy0.kind \in OnceKinds /\ firstRun # <<>>) =>
          \A k \in 1..Len(batches) :
              (k <= Len(firstRun)
                 /\ \A j \in 1..k : batches[j].delta = firstRun[j].delta)
              => batches[k].idx = firstRun[k].idx

C9_Witness ==
    /\ strategy0.kind = "FrameRangeOnce"
    /\ firstRun # <<>>
    /\ Len(batches) = 2
    /\ Len(batches[1].idx) = 1 /\ Len(batches[2].idx) = 2
    /\ TickedUnder(OnceKinds) /\ strategy = StratPaused

\* C10: under FrameRangeLoop(start,end) with start <= end, started with
\* cursor 0 and zero progress, the strategy never changes and the output is
\* periodic with period end - start + 1 ticks; on the log with frames
\* 0,1,2,2,3 under FrameRangeLoop(1,4) tick 4 emits nothing and tick 5 repeats
\* tick 1.
C10_LoopPeriodicity ==
    (FreshRun({"FrameRangeLoop"}) /\ strategy0.start <= strategy0.end) =>
        LET period == strategy0.end - strategy0.start + 1 IN
        /\ strategy = strategy0
        /\ \A t \in 1..N : t + period <= N => Batch(t + period) = Batch(t)
        /\ (events = ComplexLog /\ strategy0.start = 1 /\ strategy0.end = 4) =>
              /\ N >= 4 => Batch(4) = <<>>
              /\ N >= 5 => Batch(5) = Batch(1)

\* C10 restricted to end below the largest FrameCount (holds)
C10_BelowMax ==
    strategy0.end < FrameMax => C10_LoopPeriodicity

\* C2: between two resets of the cursor the indices of the events emitted, by
\* ticks under whatever strategies and by direct queries of the log, strictly
\* increase: no event is emitted twice and none out of the order of the log.
C2_ExactlyOnceInOrder == StrictlyIncreasing(delivered)

\* a tick under FrameLockstep emits after a tick under a range strategy (which
\* left its mark on the progress) has emitted within the same epoch
C2_Witness ==
    /\ TickedUnder({"FrameCount"})
    /\ progress # ProgressDefault
    /\ emittedIdx # <<>>
    /\ Len(delivered) > Len(emittedIdx)

\* C4: a tick under Paused emits nothing and leaves the cursor, the progress,
\* the log and the strategy as they were.
C4_PausedIsInert ==
    TickedUnder({"Paused"}) =>
        /\ emitted = <<>>
        /\ emittedIdx = <<>>
        /\ cursor = last.cursor
        /\ progress = last.progress
        /\ events = last.events
        /\ strategy = last.strategy

\* a paused tick in the middle of a session: events remain to be played and
\* the progress is under way
C4_Witness ==
    /\ TickedUnder({"Paused"})
    /\ 0 < cursor
    /\ cursor < Len(events)
    /\ progress # ProgressDefault

\* the entries the n-th capture tick logged (none after the capture ended)
CapturedOn(n) == IF n <= Len(captured) THEN captured[n].inputs ELSE <<>>

\* the events sent to the host are the logged entries; an AppExit entry, which
\* has no payload, is sent as the host's exit event
Replays(sent, inputs) ==
    /\ Len(sent) = Len(inputs)
    /\ \A i \in 1..Len(sent) :
          /\ sent[i].kind = inputs[i].kind
          /\ inputs[i].kind # "AppExit" =>
                sent[i].window = inputs[i].window /\ sent[i].data = inputs[i].data

DefaultCapture == modes = ENABLE_ALL /\ window_to_capture = "None"

ReplayTick ==
    /\ phase = "playback"
    /\ captured # <<>>
    /\ TickedUnder({"FrameCount"})
    /\ DefaultCapture
    /\ playback_window = "None"

\* C1: a capture from frame 0 with the default filters, saved on
\* EndInputCapture, loaded from the file and played back under FrameCount from
\* frame 0: every playback tick emits exactly the entries logged on the capture
\* tick of the same frame count.
C1_RecordReplayFidelity ==
    ReplayTick => Replays(emitted, CapturedOn(Len(batches)))

\* the same for captures that end before the FrameCount wraps
C1_BelowWrap ==
    (ReplayTick /\ Len(captured) <= FrameModulus) =>
        /\ Replays(emitted, CapturedOn(Len(batches)))
        /\ Len(batches) <= Len(captured) => captured[Len(batches)].frame = last.frame

\* a tick of the replay that emits several events of different classes
C1_Witness ==
    /\ ReplayTick
    /\ Len(captured) <= FrameModulus
    /\ Len(emitted) >= 2
    /\ Len(batches) >= 2

\* C11: under a bounded-loop strategy the tick on which the completion test
\* fires and PlaybackProgress::reset is called emits no event.  Stated for
\* well-formed bounds (start <= end) below the largest FrameCount.
C11_LoopGap ==
    (TickedUnder(LoopKinds) /\ epochClosed
        /\ last.strategy.start <= last.strategy.end
        /\ last.strategy.end < FrameMax) =>
        emittedIdx = <<>>

\* C12: no tick runs under a bounded strategy whose start exceeds its end.
C12_InvalidBoundsRejected ==
    TickedUnder(RangeKinds) => last.strategy.start <= last.strategy.end

\* the device classes of capture_input, by the variant they are logged as
Kinds == {"MouseButton", "MouseWheel", "CursorMoved", "Keyboard", "Gamepad", "AppExit"}
EnabledIn(m, kind) ==
    CASE kind \in {"MouseButton", "MouseWheel"} -> m.mouse_buttons
      [] kind = "CursorMoved" -> m.mouse_motion
      [] kind = "Keyboard" -> m.keyboard
      [] kind = "Gamepad" -> m.gamepad
      [] kind = "AppExit" -> TRUE
DeliveredOf(host, kind) ==
    CASE kind = "MouseButton" -> host.mouse_button
      [] kind = "MouseWheel" -> host.mouse_wheel
      [] kind = "CursorMoved" -> host.cursor_moved
      [] kind = "Keyboard" -> host.keyboard
      [] kind = "Gamepad" -> host.gamepad
      [] kind = "AppExit" -> host.app_exit
ClassRank(kind) ==
    CASE kind = "MouseButton" -> 1
      [] kind = "MouseWheel" -> 2
      [] kind = "CursorMoved" -> 3
      [] kind = "Keyboard" -> 4
      [] kind = "Gamepad" -> 5
      [] kind = "AppExit" -> 6
OfKind(q, kind) == SelectSeq(q, LAMBDA e : e.kind = kind)
Ticks == 1..Len(captured)

\* C13: an event of a class that is disabled on the tick it is delivered never
\* reaches the log, on that tick or on a later one: whatever a tick logs in a
\* class was delivered on that very tick with the class enabled; what is
\* delivered with the class enabled (and no capture window) is logged; the
\* classes are masked independently.
C13_CaptureToggling ==
    \A k \in Ticks : \A kind \in Kinds \ {"AppExit"} :
        LET c == captured[k] IN
        /\ ~EnabledIn(c.modes, kind) => OfKind(c.inputs, kind) = <<>>
        /\ Range(OfKind(c.inputs, kind)) \subseteq Range(DeliveredOf(c.host, kind))
        /\ Len(OfKind(c.inputs, kind)) <= Len(DeliveredOf(c.host, kind))
        /\ (EnabledIn(c.modes, kind) /\ c.window = "None") =>
              OfKind(c.inputs, kind) = DeliveredOf(c.host, kind)

\* keyboard events delivered while the keyboard is masked, then, with the
\* keyboard enabled and the mouse buttons masked, a key and a mouse button:
\* only that key is in the log
C13_Witness ==
    /\ Len(captured) = 2
    /\ ~captured[1].modes.keyboard /\ captured[1].host.keyboard # <<>>
    /\ captured[1].inputs = <<>>
    /\ captured[2].modes.keyboard /\ ~captured[2].modes.mouse_buttons
    /\ captured[2].host.keyboard # <<>> /\ captured[2].host.mouse_button # <<>>
    /\ captured[2].window = "None"
    /\ InputsAt(events, Indices(0, Len(events))) = captured[2].host.keyboard

\* C14: whatever the mask, every AppExit the host delivers on a capture tick
\* is logged on that tick with the tick's frame and elapsed time.
C14_SessionEndCaptured ==
    \A k \in Ticks :
        LET c == captured[k]
            exits == SelectSeq(c.entries, LAMBDA e : e.input_event.kind = "AppExit")
        IN  /\ Len(exits) = Len(c.host.app_exit)
            /\ c.frame = k - 1
            /\ \A i \in 1..Len(exits) :
                  exits[i].frame = c.frame /\ exits[i].time_since_startup = c.time

C14_Witness ==
    \E k \in Ticks :
        /\ k >= 2
        /\ captured[k].modes = DISABLE_ALL
        /\ captured[k].host.app_exit # <<>>
        /\ Len(captured[k].entries) = 1
        /\ captured[k].entries[1].frame = k - 1

\* C15: what one capture tick logs is in the class order mouse buttons, mouse
\* wheel, cursor moved, keyboard, gamepad, exit; within a class it is in the
\* order of delivery; and it is appended at the tail of the log.
C15_CaptureOrdering ==
    /\ \A k \in Ticks :
          LET c == captured[k] IN
          /\ \A i \in 1..Len(c.inputs) : \A j \in i..Len(c.inputs) :
                ClassRank(c.inputs[i].kind) <= ClassRank(c.inputs[j].kind)
          /\ \A kind \in Kinds \ {"AppExit"} :
                OfKind(c.inputs, kind) =
                    SelectSeq(DeliveredOf(c.host, kind),
                              LAMBDA e : e \in Range(c.inputs))
    /\ last.op = "capture" =>
          events = last.events \o captured[Len(captured)].entries

\* a tick that logs several classes, two events in one of them, onto a log
\* that is not empty
C15_Witness ==
    /\ last.op = "capture"
    /\ last.events # <<>>
    /\ Len(captured[Len(captured)].inputs) = 7
    /\ Len(OfKind(captured[Len(captured)].inputs, "MouseButton")) = 2

\* the events of a class that pass the capture window; gamepad events and
\* exits carry no window
OnWindow(q, window) ==
    SelectSeq(q, LAMBDA e : \/ window = "None"
                            \/ e.kind \in {"Gamepad", "AppExit"}
                            \/ e.window = window)

\* C17 as stated: every event delivered on a capture tick in a class enabled
\* on that tick is logged exactly once; only events of disabled classes are
\* discarded.
C17_AsStated ==
    \A k \in Ticks : \A kind \in Kinds :
        LET c == captured[k] IN
        EnabledIn(c.modes, kind) =>
            Len(OfKind(c.inputs, kind)) = Len(DeliveredOf(c.host, kind))

\* C17 as amended: every event delivered on a capture tick in a class enabled
\* on that tick and, when a capture window is set, on that window, is logged
\* exactly once; the events discarded are those of disabled classes and those
\* of other windows.
C17_NoSilentDrop ==
    \A k \in Ticks : \A kind \in Kinds :
        LET c == captured[k]
            kept == OnWindow(DeliveredOf(c.host, kind), c.window)
        IN  /\ EnabledIn(c.modes, kind) =>
                 /\ Len(OfKind(c.inputs, kind)) = Len(kept)
                 /\ \A e \in Range(kept) :
                       Len(SelectSeq(c.inputs, LAMBDA x : x = into_input_event(e)))
                         = Len(SelectSeq(kept, LAMBDA x : x = e))
            /\ ~EnabledIn(c.modes, kind) => OfKind(c.inputs, kind) = <<>>

\* a tick with every class enabled and the capture window w1: the events on
\* w2 are dropped, the others logged
C17_Witness ==
    \E k \in Ticks :
        /\ captured[k].window = "w1"
        /\ captured[k].modes = ENABLE_ALL
        /\ Len(captured[k].host.mouse_button) = 2
        /\ Len(captured[k].inputs) = 4

\* C16: in a log produced by capture ticks alone the frames never decrease
\* from one event to the next, and every event carries the frame count of
\* the tick that logged it (0 on the first tick, 1 on the second).
C16_MonotonicLog ==
    /\ \A k \in Ticks : \A l \in k..Len(captured) :
          \A i \in 1..Len(captured[k].entries) : \A j \in 1..Len(captured[l].entries) :
              captured[k].entries[i].frame <= captured[l].entries[j].frame
    /\ \A k \in Ticks : \A i \in 1..Len(captured[k].entries) :
          captured[k].entries[i].frame = captured[k].frame
    /\ \A k \in Ticks : k <= 2 => captured[k].frame = k - 1
    /\ phase = "capture" => is_sorted_frame(events)

\* the same for captures that end before the FrameCount wraps
C16_BelowWrap ==
    Len(captured) <= FrameModulus => C16_MonotonicLog


\* C18: no update on which capture_input appends to the log from which
\* playback_timestamped_input takes events on the same update, whatever the
\* order in which captures and playbacks were begun and ended.
C18_ExclusiveOwnership ==
    last.op \in {"update", "end_capture"} =>
        ~(/\ captured # <<>>
          /\ captured[Len(captured)].frame = last.frame
          /\ captured[Len(captured)].entries # <<>>
          /\ emittedIdx # <<>>)


FrameQueries == {"iter_until_frame", "iter_between_frames"}
TimeQueries == {"iter_until_time", "iter_between_times"}
Exhausted == last.cursor = Len(last.events)
ReturnedEmpty == phase = "playback" /\ emittedIdx = <<>> /\ cursor = Len(events)

\* C20 as stated: on a log sorted by frame, iter_until_frame(F) with F at
\* least the frame of the last event leaves the cursor at the length of the
\* log, and every query or next called on the exhausted log returns nothing
\* and leaves the cursor there.
C20_AsStated ==
    /\ (last.op = "iter_until_frame" /\ \A i \in 1..Len(events) : events[i].frame <= last.a)
           => phase = "playback" /\ cursor = Len(events)
    /\ (last.op \in FrameQueries \cup TimeQueries \cup {"next"} /\ Exhausted)
           => ReturnedEmpty

\* C20: the same, where the queries keyed by time are called on a log that is
\* also sorted by time (on any other log they panic in a debug build).
C20_CursorExhaustion ==
    /\ (last.op = "iter_until_frame" /\ \A i \in 1..Len(events) : events[i].frame <= last.a)
           => phase = "playback" /\ cursor = Len(events)
    /\ (last.op \in FrameQueries \cup {"next"} /\ Exhausted) => ReturnedEmpty
    /\ (last.op \in TimeQueries /\ Exhausted /\ is_sorted_time(events)) => ReturnedEmpty

\* a query keyed by time has been called on a log of MaxLen events, sorted by
\* frame and by time, all of which had been yielded before
C20_Witness ==
    /\ last.op \in TimeQueries
    /\ Len(events) = MaxLen
    /\ is_sorted_time(events)
    /\ Exhausted
    /\ delivered = Indices(0, MaxLen)
    /\ ReturnedEmpty


\* C21: from an empty log, whatever methods of the log are called and
\* whatever capture and playback ticks run on it, the cursor stays within
\* 0..len(events).
C21_CursorBound == 0 <= cursor /\ cursor <= Len(events)

\* a capture tick has appended to the log, and a query has then moved the
\* cursor to its end
C21_Witness ==
    /\ last.op \in {"iter_rest", "iter_all", "next"}
    /\ captured # <<>>
    /\ Len(events) > 0
    /\ cursor = Len(events)
    /\ last.cursor < cursor


\* C22: right after a BeginInputCapture has taken effect the log is empty with
\* its cursor at 0, and the mask, the path, the final frame and the window of
\* the request are the ones installed, whatever the World held before.
C22_BeginCaptureFreshLog ==
    last.op = "begin_capture" =>
        /\ events = <<>>
        /\ cursor = 0
        /\ modes = last.a.input_modes_captured
        /\ playback_file = last.a.filepath
        /\ final_capture_frame =
               [i \in 1..Len(last.a.frames_to_capture) |->
                    wrapping_add(frame_count, last.a.frames_to_capture[i])]
        /\ window_to_capture = last.a.window_to_capture


\* C23: after a capture has ended with no path configured the log is still
\* in the World and holds the events captured so far (so that a later capture
\* appends behind them).
C23_EndThenBeginCapture ==
    (last.op = "end_capture" /\ captured[Len(captured)].path = "None")
        => /\ "TimestampedInputs" \in resources
           /\ events = captured[Len(captured)].log


\* the last step was an update on which capture_input ran
CapturedNow ==
    /\ last.op \in {"update", "end_capture"}
    /\ captured # <<>>
    /\ captured[Len(captured)].time = last.time

\* C24: a capture ends on an EndInputCapture, on its final frame and on an
\* AppExit seen while capturing; each time the whole log is written to the
\* path, if there is one, and every resource of the capture is then removed.
C24_EndCaptureTriggers ==
    (CapturedNow /\ (\/ last.op = "end_capture"
                     \/ captured[Len(captured)].host.app_exit # <<>>))
        => LET c == captured[Len(captured)]
           IN  /\ c.path # "None" => file = to_ron(c.log, c.cursor)
               /\ resources \cap CaptureResources = {}


\* C25: right after a BeginInputPlayback has taken effect (also one triggered
\* while a playback is part-way through a bounded pass) the strategy and the
\* window override are the requested ones, the log is the supplied or the
\* loaded one, and both counters of the progress are zero.
C25_BeginPlaybackInitialState ==
    (last.op = "begin_playback" /\ phase = "app") =>
        /\ strategy = last.a.playback_strategy
        /\ playback_window = last.a.playback_window
        /\ last.a.source.kind = "TimestampedInputs" => events = last.a.source.inputs
        /\ last.a.source.kind = "File" => events = from_reader(file).events
        /\ progress = ProgressDefault


\* C26: after an EndInputPlayback the log, the strategy, the progress, the
\* window override and the path are absent, and as long as no playback has
\* begun again every update completes and emits no event.
C26_EndPlayback ==
    /\ last.op = "end_playback" => resources \cap PlaybackResources = {}
    /\ ("PlaybackProgress" \notin resources /\ last.op \in {"update", "end_capture", "panic"})
           => phase = "app" /\ emitted = <<>>


\* the classes of events that carry a window
Windowed == {"Keyboard", "MouseButton", "MouseWheel", "CursorMoved"}

\* C27: every event with a window that a playback tick emits carries the
\* window of the override when one is configured, and the recorded window
\* when none is.
C27_TargetOverride ==
    last.op = "tick" =>
        \A i \in 1..Len(emitted) :
            LET recorded == last.events[emittedIdx[i] + 1].input_event
            IN  recorded.kind \in Windowed =>
                    emitted[i].window =
                        IF window_override(playback_window) # "None"
                        THEN window_override(playback_window)
                        ELSE recorded.window


\* the batch the next playback tick takes from the log
NextBatch ==
    playback_timestamped_input(events, cursor, strategy, progress,
                               elapsed + 1, 1, frame_count).result

\* the next tick replays a CursorMoved whose window does not exist, with no
\* override configured
MissingTarget ==
    /\ phase = "playback"
    /\ playback_window = "None"
    /\ is_sorted_frame(events)
    /\ \E i \in 1..Len(NextBatch) :
           LET e == events[NextBatch[i] + 1].input_event
           IN  e.kind = "CursorMoved" /\ e.window \notin DOMAIN windows

\* the position a window has after a batch: the one of the last CursorMoved
\* of the batch on that window, if any
PositionAfter(w, evs, idx, before) ==
    LET hits == {i \in 1..Len(idx) : /\ evs[idx[i] + 1].input_event.kind = "CursorMoved"
                                     /\ evs[idx[i] + 1].input_event.window = w}
    IN  IF hits = {} THEN before
        ELSE evs[idx[CHOOSE i \in hits : \A j \in hits : j <= i] + 1].input_event.data

\* C28: a tick that replays a CursorMoved on a window that does not exist
\* (no override configured) completes; it emits every event of its batch
\* in order, the CursorMoved included and unchanged (an AppExit is emitted
\* with the default code), and changes no window but the existing ones that
\* other CursorMoved events of the batch name.
C28_MissingTargetRecoverable ==
    [][MissingTarget =>
          /\ phase' = "playback"
          /\ last'.op = "tick"
          /\ emittedIdx' = NextBatch
          /\ Len(emitted') = Len(NextBatch)
          /\ \A i \in 1..Len(NextBatch) :
                 LET e == events[NextBatch[i] + 1].input_event
                 IN  /\ emitted'[i].kind = e.kind
                     /\ e.kind # "AppExit" => emitted'[i] = e
          /\ windows' = [w \in DOMAIN windows |->
                            PositionAfter(w, events, NextBatch, windows[w])]]_vars

\* a tick has emitted a CursorMoved whose window does not exist, together
\* with another event
C28_Witness ==
    /\ last.op = "tick"
    /\ playback_window = "None"
    /\ Len(emitted) > 1
    /\ \E i \in 1..Len(emitted) :
           emitted[i].kind = "CursorMoved" /\ emitted[i].window \notin DOMAIN windows


\* C29: a BeginInputPlayback from a file that cannot be opened ends in the
\* I/O error, one from a file with malformed content in the format error, a
\* different outcome; neither installs or changes a log or any resource, and
\* a playback begins from a file only if the file opens and parses.
C29_LoadErrorsDistinct ==
    [][/\ (phase = "app" /\ last'.op = "unwrap_fs") =>
              /\ file = <<>>
              /\ phase' = "panicked"
              /\ UNCHANGED <<events, cursor, resources>>
       /\ (phase = "app" /\ last'.op = "unwrap_ron") =>
              /\ file # <<>> /\ ~well_formed(file)
              /\ phase' = "panicked"
              /\ UNCHANGED <<events, cursor, resources>>
       /\ (last'.op = "begin_playback" /\ last'.n # last.n
           /\ last'.a.source.kind = "File") =>
              /\ last'.a.source.path # "None"
              /\ file # <<>> /\ well_formed(file)
              /\ events' = from_reader(file).events]_vars

\* both load errors have happened to applications that held no log
C29_Witness ==
    /\ phase = "panicked"
    /\ "TimestampedInputs" \notin resources
    /\ \/ last.op = "unwrap_fs" /\ file = <<>>
       \/ last.op = "unwrap_ron" /\ file = TruncatedFile


\* C30: no update of the application panics, whatever is present or absent
\* of the capture mask, the log, the strategy, the progress, the window
\* override and the primary window; an update on which the playback lacks
\* its progress or its log emits nothing, and one on which the capture
\* lacks its mask appends nothing.
C30_TicksNeverFail ==
    /\ ~(phase = "panicked" /\ last.op = "panic")
    /\ (last.op = "update" /\ ~playback_runs) => emitted = <<>>
    /\ (last.op = "update" /\ ~capture_runs) => events = last.events


\* the indices that a run of ticks has emitted, in order
RECURSIVE PlayedBy(_)
PlayedBy(bs) == IF bs = <<>> THEN <<>> ELSE bs[1].idx \o PlayedBy(Tail(bs))

\* C31: when a log drained by playback under Time has its cursor reset, the
\* next tick under Time emits again, in log order, every event whose
\* timestamp is at most the elapsed time, which are all the events of the log.
C31_Rewind ==
    [][(/\ last.op = "reset_cursor"
        /\ strategy0.kind = "Time"
        /\ last.cursor = Len(events)
        /\ PlayedBy(batches) = Indices(0, Len(events))
        /\ last'.op = "tick") =>
          /\ \A i \in 1..Len(events) : events[i].time_since_startup <= elapsed'
          /\ emittedIdx' = Indices(0, Len(events))
          /\ emitted' = [i \in 1..Len(events) |-> events[i].input_event]]_vars

\* a log of two events was drained under Time, rewound, and played again
C31_Witness ==
    /\ last.op = "tick"
    /\ last.strategy.kind = "Time"
    /\ last.cursor = 0
    /\ Len(batches) = 2
    /\ batches[1].idx = <<0, 1>>
    /\ emittedIdx = <<0, 1>>


\* the sum of two frame counts as FrameCount holds it: it starts again from 0
\* past the largest value
FrameSum(a, b) == IF a + b <= FrameMax THEN a + b ELSE a + b - FrameModulus

C33_SaturatingFrames ==
    /\ last.op \in {"current_frame", "next_frame"} =>
          /\ last.b = saturating_add(last.a, progress.elapsed_frames)
          /\ last.b >= last.a
    /\ last.op = "next_frame" =>
          progress.elapsed_frames = saturating_add(last.progress.elapsed_frames, 1)


\* the key of the i-th event for the range query named `op`
RangeKey(op, i) ==
    IF op = "iter_between_frames" THEN events[i].frame
    ELSE events[i].time_since_startup

\* a range query has returned, on a log sorted by its key
RangeQueried ==
    /\ phase = "playback"
    /\ last.op \in {"iter_between_frames", "iter_between_times"}
    /\ \A i \in 1..Len(events), j \in 1..Len(events) :
           i <= j => RangeKey(last.op, i) <= RangeKey(last.op, j)

\* C34: on a log sorted by its key, a range query (s, e) called at cursor c
\* returns exactly the events at index >= c with s <= key < e, in log order,
\* and leaves the cursor at the first index >= c whose key is >= e, or at
\* the length of the log; on the log of the unit tests
\* iter_between_frames(1, 3) from cursor 0 returns 3 events.
C34_RangeQuery ==
    RangeQueried =>
        LET past == {i \in 1..Len(events) : i > last.cursor}
            want == {i \in past : /\ last.a <= RangeKey(last.op, i)
                                  /\ RangeKey(last.op, i) < last.b}
            stop == {i \in past : RangeKey(last.op, i) >= last.b}
        IN  /\ {emittedIdx[k] + 1 : k \in 1..Len(emittedIdx)} = want
            /\ \A k \in 1..(Len(emittedIdx) - 1) : emittedIdx[k] < emittedIdx[k + 1]
            /\ emitted = InputsAt(events, emittedIdx)
            /\ events = last.events
            /\ cursor = IF stop = {} THEN Len(events)
                        ELSE (CHOOSE i \in stop : \A j \in stop : i <= j) - 1
            /\ (/\ events = ComplexLog /\ last.op = "iter_between_frames"
                /\ last.cursor = 0 /\ last.a = 1 /\ last.b = 3) => Len(emitted) = 3

\* iter_between_frames(1, 3) has been called on the log of the unit tests
C34_Witness ==
    /\ RangeQueried
    /\ events = ComplexLog
    /\ last.op = "iter_between_frames"
    /\ last.cursor = 0 /\ last.a = 1 /\ last.b = 3
    /\ emittedIdx = <<1, 2, 3>>
    /\ cursor = 4


IterationOps ==
    {"next", "iter_all", "iter_rest", "iter_until_frame", "iter_until_time",
     "iter_between_frames", "iter_between_times"}

\* the log is sorted by the key that the method named `op` compares, if any
SortedFor(op) ==
    CASE op \in {"iter_until_frame", "iter_between_frames"} -> is_sorted_frame(events)
      [] op \in {"iter_until_time", "iter_between_times"} -> is_sorted_time(events)
      [] OTHER -> TRUE

\* the 1-based indices that the method named `op`, called with (a, b), yields
\* on a fresh copy of the log
FreshYield(op, a, b) ==
    CASE op = "next" -> {i \in 1..Len(events) : i = 1}
      [] op \in {"iter_all", "iter_rest"} -> 1..Len(events)
      [] op = "iter_until_frame" -> {i \in 1..Len(events) : events[i].frame <= a}
      [] op = "iter_until_time" ->
             {i \in 1..Len(events) : events[i].time_since_startup <= a}
      [] op = "iter_between_frames" ->
             {i \in 1..Len(events) : a <= events[i].frame /\ events[i].frame < b}
      [] OTHER ->
             {i \in 1..Len(events) : /\ a <= events[i].time_since_startup
                                     /\ events[i].time_since_startup < b}

\* C35: no iteration method and no reset of the cursor changes the stored
\* events; a reset leaves the cursor at 0; and a method called at cursor 0
\* after any earlier calls yields, in log order, what it yields on a fresh
\* copy of the log (for the methods keyed by frame or time, on a log sorted
\* by that key); iter_all yields the whole log from any cursor.
C35_IterationKeepsEvents ==
    /\ (phase = "playback" /\ last.op \in IterationOps \cup {"reset_cursor"}) =>
           events = last.events
    /\ (phase = "playback" /\ last.op = "reset_cursor") => cursor = 0
    /\ (phase = "playback" /\ last.op = "iter_all") =>
           emittedIdx = Indices(0, Len(events))
    /\ (/\ phase = "playback" /\ last.op \in IterationOps
        /\ last.cursor = 0 /\ SortedFor(last.op)) =>
           /\ {emittedIdx[k] + 1 : k \in 1..Len(emittedIdx)}
                 = FreshYield(last.op, last.a, last.b)
           /\ \A k \in 1..(Len(emittedIdx) - 1) : emittedIdx[k] < emittedIdx[k + 1]
           /\ emitted = InputsAt(events, emittedIdx)

\* on the log of the unit tests, as the third call and with the cursor back
\* at 0, iter_between_times(0, 3) yields its three events
C35_Witness ==
    /\ phase = "playback"
    /\ events = ComplexLog
    /\ last.n = 3
    /\ last.op = "iter_between_times" /\ last.a = 0 /\ last.b = 3
    /\ last.cursor = 0
    /\ delivered = <<0, 1, 2>>
    /\ Len(emitted) = 3


\* the update that starts is the one whose frame count is the capture cutoff
CutoffTick ==
    /\ phase = "app"
    /\ capture_runs
    /\ "FinalCaptureFrame" \in resources
    /\ final_capture_frame = <<frame_count>>

\* C36: a capture begun on the tick of frame count F with frames_to_capture =
\* N appends the events of the N ticks F .. F + N - 1 only: the tick whose
\* frame count is the cutoff F + N appends nothing, so the file it writes
\* holds the events the log held before that tick, and it releases the
\* capture state.
C36_FrameCutoff ==
    [][(CutoffTick /\ last'.op \in {"update", "end_capture"}) =>
          /\ last'.op = "end_capture"
          /\ resources' \cap CaptureResources = {}
          /\ playback_file # "None" => file'[1] = to_ron(events, cursor)[1]]_vars


\* C37: an update on which the capture appends to the log of a playback that
\* is Paused leaves the cursor where it is and emits nothing; the update
\* that follows the switch to FrameCount, with the capture disabled for all
\* classes, emits in log order every event from the cursor on whose frame is
\* at most the frame count, and, the host delivering nothing, leaves the log
\* as it is.
C37_CaptureWhilePaused ==
    [][/\ (/\ phase = "app" /\ playback_runs /\ capture_runs
           /\ strategy = StratPaused /\ last'.op = "update") =>
              cursor' = cursor /\ emitted' = <<>>
       /\ (/\ phase = "app" /\ playback_runs /\ capture_runs
           /\ modes = DISABLE_ALL /\ strategy = StratFrameCount
           /\ last.op = "insert_strategy" /\ last'.op = "update"
           /\ captured'[Len(captured')].host = IdleHost) =>
              /\ {emittedIdx'[k] + 1 : k \in 1..Len(emittedIdx')}
                    = {i \in 1..Len(events) : i > cursor /\ events[i].frame <= frame_count}
              /\ \A k \in 1..(Len(emittedIdx') - 1) : emittedIdx'[k] < emittedIdx'[k + 1]
              /\ events' = events]_vars


\* a bounded-once strategy seeded with the frame range of the log it plays
SeededWithFrameRange ==
    /\ frame_range(events) # <<>>
    /\ strategy0 = Strat("FrameRangeOnce", frame_range(events)[1], frame_range(events)[2])

\* C38: frame_range() is None exactly for the empty log and otherwise the
\* frames of the first and last event; FrameRangeOnce seeded with it, started
\* at cursor 0 with zero progress on a frame-sorted log, pauses on tick
\* last - first + 1 and has by then emitted every event of the log exactly
\* once, in log order.
C38_ReplayEverything ==
    /\ (frame_range(events) = <<>>) <=> (events = <<>>)
    /\ events # <<>> =>
          frame_range(events) = <<events[1].frame, events[Len(events)].frame>>
    /\ (FreshRun({"FrameRangeOnce"}) /\ SeededWithFrameRange) =>
          LET span == strategy0.end - strategy0.start IN
          /\ N <= span =>
                /\ strategy = strategy0
                /\ PlayedBy(batches) = Indices(0, Len(PlayedBy(batches)))
          /\ N >= span + 1 =>
                /\ strategy = StratPaused
                /\ PlayedBy(batches) = Indices(0, Len(events))

\* C38 for logs that end below the largest FrameCount (holds)
C38_BelowMax ==
    (events # <<>> /\ events[Len(events)].frame = FrameMax) \/ C38_ReplayEverything

C38_BelowMaxWitness ==
    /\ FreshRun({"FrameRangeOnce"}) /\ SeededWithFrameRange
    /\ Len(events) = 3 /\ events[1].frame = 1 /\ events[3].frame = 3
    /\ strategy = StratPaused
    /\ PlayedBy(batches) = <<0, 1, 2>>


\* `front` is the beginning of `whole`, record for record
IsPrefix(front, whole) ==
    Len(front) <= Len(whole) /\ SubSeq(whole, 1, Len(front)) = front

\* C39: send, send_multiple and a capture tick only append at the tail: the
\* records stored before are the beginning of the log afterwards and the
\* cursor is where it was (where playback_timestamped_input left it, on a
\* tick of an application that also replays).  A playback tick under any
\* strategy leaves every stored record and the length of the log as they
\* were; what the log gains on such a tick is appended by capture_input.
C39_SeparatePaths ==
    [][/\ last'.op = "send" =>
              /\ IsPrefix(events, events') /\ Len(events') = Len(events) + 1
              /\ cursor' = cursor
       /\ last'.op = "send_multiple" =>
              /\ IsPrefix(events, events') /\ Len(events') = Len(events) + 2
              /\ cursor' = cursor
       /\ (phase = "app" /\ last'.op = "update" /\ capture_runs) =>
              /\ IsPrefix(events, events')
              /\ events' = captured'[Len(captured')].log
              /\ Len(events') = Len(events) + Len(captured'[Len(captured')].entries)
              /\ ~playback_runs => cursor' = cursor
              /\ playback_runs =>
                    cursor' = playback_timestamped_input(events, cursor, strategy, progress,
                                                         elapsed + 1, 1, frame_count).cursor
       /\ (phase = "app" /\ last'.op = "update" /\ playback_runs /\ ~capture_runs) =>
              events' = events]_vars

C39_Witness ==
    /\ phase = "app" /\ last.op = "update"
    /\ playback_runs /\ capture_runs
    /\ cursor > last.cursor
    /\ Len(events) > Len(last.events)
    /\ last.events # <<>>


\* C40: a bounded-once strategy with start <= end that keeps being ticked
\* (time passing on the ticks, for time bounds) eventually becomes Paused,
\* whatever the log holds, and stays Paused while no other strategy is
\* installed.
C40_OnceTerminates ==
    <>[](strategy = StratPaused)

\* C40 for bounds below the largest FrameCount (holds)
C40_BelowMax ==
    (strategy0.kind = "FrameRangeOnce" => strategy0.end < FrameMax)
        => <>[](strategy = StratPaused)

====
